---- MODULE Spec2Model ----
(***************************************************************************)
(* Verification model of the hybrid retrieval and caching core of the     *)
(* Qonfido RAG backend: InMemoryCache (services/cache.py), HybridSearcher *)
(* (core/retrieval/hybrid.py) and RAGPipeline.initialize                  *)
(* (core/orchestration/pipeline.py).                                      *)
(***************************************************************************)
EXTENDS Integers, Sequences, FiniteSets, TLC

\* ------------------------------------------------------------------ bounds
MaxTime == 2
MaxSize == 2
MaxTopK == 2
AlphaSteps == 2
NumVersions == 2
DocsPerVersion == 2
MaxFileLen == 1
MaxResults == 2
MaxResponse == 2
MaxEntries == 2
MaxBatch == 2
NumQueries == 2

\* HybridSearcher.__init__: rrf_k
RrfK == 60

\* the inputs the operations are tried on
Keys == {1, 2, 3}
Values == {1, 2}
DefaultTtls == {2}
DocOrder == <<1, 2, 3, 4>>
Docs == {DocOrder[i] : i \in 1..Len(DocOrder)}
\* an optional argument or result is <<>> (None) or <<x>>
None == <<>>
Some(x) == <<x>>
TtlArgs == {None, Some(0), Some(1)}

VARIABLES
    cache,        \* InMemoryCache._cache: [store: key -> CacheEntry, order: keys, LRU first]
    now,          \* time.time()
    max_size,     \* InMemoryCache.max_size
    default_ttl,  \* InMemoryCache.default_ttl
    lastOp,       \* history: the last completed cache operation and what it observed
    touched,      \* history: stored keys by last touch (set, or get hit), oldest first
    mruRead,      \* history: the key whose get hit is the latest touch of all, if any
    lock,         \* InMemoryCache._lock: the thread that holds it, 0 when free
    pc,           \* per thread: where it is in the cache method it runs
    cur,          \* per thread: the method it runs and its key
    loc,          \* per thread: the method's local (entry, membership test, expired_keys)
    failed,       \* per thread: a map operation of its method raised
    lexRanking,   \* LexicalSearcher: the ids it ranks for the query, best first
    semRanking,   \* SemanticSearcher: the ids the collection ranks for the query
    hq,           \* HybridSearcher.search: top_k, alpha and use_parallel of the call
    hPhase,       \* HybridSearcher.search: where the call is
    lexFut,       \* the lexical search of the call: [state, res]
    semFut,       \* the semantic search of the call: [state, res]
    scored,       \* scored_results after the sort
    result,       \* the list search returned
    error,        \* the error search raised: "none", "lexical" or "semantic"
    sameFiles,    \* settings.faqs_path / funds_path name the files the loader reads
    dataVer,      \* the source data files: which content they hold (0: no documents)
    stateFile,    \* index.state: [kind: "absent", "corrupt" or "json", hash, document_count]
    vecDocs,      \* the persistent vector collection: documents <<id, content>>
    collExists,   \* whether the collection SemanticSearcher._collection names exists
    lexDocs,      \* LexicalSearcher._documents of the running process
    proc,         \* the process: "down" or "up"
    initialized,  \* RAGPipeline._initialized
    pI,           \* RAGPipeline.initialize: where the call is
    iq,           \* RAGPipeline.initialize: clear_existing, documents, current_hash
    hist,         \* history of the last initialize: the index state it met, what it did
    fpFiles,      \* the file system: path -> content (a byte list) or Missing
    fpDirs,       \* settings.data_dir and the data_dir argument of RAGPipeline
    fpPhase,      \* fingerprint runs: "start", "hashed", "changed", "rehashed"
    fpBefore,     \* _get_current_state_hash(): the first digest computed
    fpAfter,      \* _get_current_state_hash(): the second digest computed
    fpNote,       \* history: a loaded file was changed, a read failed
    rrCall,       \* Reranker.rerank: results, top_k of the call and whether a key is set
    rrRet,        \* Reranker.rerank: what the call did: [how, list]
    lxIndex,      \* LexicalSearcher._index / _documents: None or the indexed documents
    lxCalls,      \* history of index_documents calls: "never", "empty" (only with an
                  \* empty list) or "built"
    lxRet,        \* LexicalSearcher.search: the last call and its outcome
    smClient,     \* SemanticSearcher._client is set
    smLocal,      \* SemanticSearcher._documents: ids of the local document map
    smColl,       \* the external collection: ids it holds
    smRet,        \* SemanticSearcher: the last call, the state before it, its outcome
    svRet,        \* QueryCache / EmbeddingCache: the last call and what it returned
    svStored,     \* history: key -> [at, value] of entries stored and not evicted
    prPc,         \* RAGPipeline.process: where the call is
    prReq,        \* RAGPipeline.process: the request of the call
    prBefore,     \* history: the query-cache entries when the call began
    prInit,       \* RAGPipeline._initialized of the serving pipeline
    prOut,        \* RAGPipeline.process: "none", "hit", "returned" or "raised"
    prRun,        \* history of the call: the steps it ran, the response it has, and
                  \* of a hit the request whose response it was given
    prLive,       \* history: per request key, the request and response of the
                  \* entry process stored there, while the entry is in the map
    plPhase,      \* per query in flight: where its HybridSearcher.search call is
    plFut,        \* per query: lexical_future and semantic_future of its call
    plQueue,      \* ThreadPoolExecutor._work_queue: submitted tasks, oldest first
    plSlots,      \* the two pool workers: the task each runs, or None
    plFused,      \* per query: the two lists its fusion was given, or None
    scClient,     \* SemanticSearcher._client is set (searcher shared by threads)
    scColl,       \* SemanticSearcher._collection: None, or Some of "live" (a handle
                  \* of the existing collection) or "stale" (of a deleted one)
    scDb,         \* the database: whether the named collection exists, and its ids
    scLocal,      \* SemanticSearcher._documents: ids of the local document map
    scPc,         \* per thread: where it is in the method it runs
    scOp,         \* per thread: the method it runs and the ids it indexes
    scObs,        \* per thread: what its last finished call met
    scSetups,     \* history: how many runs of _initialize set the collection handle
    scLastClear,  \* history of the last clear that ended: what it had done
    lcDocuments,  \* LexicalSearcher._documents (searcher shared by threads)
    lcIndex,      \* LexicalSearcher._index: None, or the documents it was built from
    lcBuild,      \* the thread in index_documents: where it is, and its argument
    lcSearch,     \* the thread in search: where it is, and the index it took scores from
    lcOut         \* the last search that ended: what its scores and documents came from

cacheVars == <<cache, now, max_size, default_ttl, lastOp, touched, mruRead>>
threadVars == <<lock, pc, cur, loc, failed>>

hybridVars == <<lexRanking, semRanking, hq, hPhase, lexFut, semFut, scored, result, error>>
pipeVars == <<sameFiles, dataVer, stateFile, vecDocs, collExists, lexDocs, proc, initialized, pI, iq, hist>>
fpVars == <<fpFiles, fpDirs, fpPhase, fpBefore, fpAfter, fpNote>>
rrVars == <<rrCall, rrRet>>
lxVars == <<lxIndex, lxCalls, lxRet>>
smVars == <<smClient, smLocal, smColl, smRet>>
svVars == <<svRet, svStored>>
prVars == <<prPc, prReq, prBefore, prInit, prOut, prRun, prLive>>
plVars == <<plPhase, plFut, plQueue, plSlots, plFused>>
scVars == <<scClient, scColl, scDb, scLocal, scPc, scOp, scObs, scSetups, scLastClear>>
lcVars == <<lcDocuments, lcIndex, lcBuild, lcSearch, lcOut>>
lateVars == <<plVars, scVars, lcVars>>
earlyVars == <<fpVars, rrVars, lxVars, smVars, svVars, prVars>>
unitVars == <<earlyVars, lateVars>>
nonCacheVars == <<hybridVars, pipeVars, unitVars>>
nonHybridVars == <<cacheVars, threadVars, pipeVars, unitVars>>
nonPipeVars == <<cacheVars, threadVars, hybridVars, unitVars>>
coreVars == <<cacheVars, threadVars, hybridVars, pipeVars>>
nonFpVars == <<coreVars, rrVars, lxVars, smVars, svVars, prVars, lateVars>>
nonRrVars == <<coreVars, fpVars, lxVars, smVars, svVars, prVars, lateVars>>
nonLxVars == <<coreVars, fpVars, rrVars, smVars, svVars, prVars, lateVars>>
nonSmVars == <<coreVars, fpVars, rrVars, lxVars, svVars, prVars, lateVars>>
\* the services and process share the InMemoryCache of get_cache()
nonSvVars == <<threadVars, hybridVars, pipeVars, fpVars, rrVars, lxVars, smVars, prVars,
               lateVars>>
nonPrVars == <<threadVars, hybridVars, pipeVars, fpVars, rrVars, lxVars, smVars, svVars,
               lateVars>>
nonPlVars == <<coreVars, earlyVars, scVars, lcVars>>
nonScVars == <<coreVars, earlyVars, plVars, lcVars>>
nonLcVars == <<coreVars, earlyVars, plVars, scVars>>

vars == <<cacheVars, threadVars, hybridVars, pipeVars, unitVars>>

Threads == {1, 2}

\* ------------------------------------------------------- sequence helpers
RECURSIVE Without(_, _)
Without(s, x) ==
    IF s = <<>> THEN <<>>
    ELSE IF Head(s) = x THEN Without(Tail(s), x)
    ELSE <<Head(s)>> \o Without(Tail(s), x)

Range(s) == {s[i] : i \in 1..Len(s)}

NoDup(s) == \A i, j \in 1..Len(s) : i # j => s[i] # s[j]

\* ------------------------------------------------ InMemoryCache (cache.py)
EmptyCache == [store |-> <<>>, order |-> <<>>]

\* a function with the key removed from its domain
DropKey(f, k) == [x \in (DOMAIN f) \ {k} |-> f[x]]

\* OrderedDict.__setitem__: a new key is appended, an existing key keeps its place
DictAssign(c, k, e) ==
    [store |-> [x \in (DOMAIN c.store) \cup {k} |-> IF x = k THEN e ELSE c.store[x]],
     order |-> IF k \in DOMAIN c.store THEN c.order ELSE Append(c.order, k)]

\* OrderedDict.__delitem__
DictDel(c, k) == [store |-> DropKey(c.store, k), order |-> Without(c.order, k)]

\* mutant: the key is not promoted
MoveToEndKeepsPlace(c, k) == c

\* OrderedDict.move_to_end(key)
MoveToEnd(c, k) == [store |-> c.store, order |-> Append(Without(c.order, k), k)]

\* mutant: popitem(last=True)
PopLast(c) == [store |-> [x \in (DOMAIN c.store) \ {c.order[Len(c.order)]} |-> c.store[x]],
               order |-> SubSeq(c.order, 1, Len(c.order) - 1)]

\* OrderedDict.popitem(last=False)
PopFirst(c) == DictDel(c, Head(c.order))

\* _is_expired: time.time() > entry.created_at + entry.ttl
IsExpired(e, t) == t > e.created_at + e.ttl

\* ttl or self.default_ttl
EffectiveTtl(ttl, dflt) == IF ttl = None \/ ttl[1] = 0 THEN dflt ELSE ttl[1]

\* get: the cache after the call
GetCache(c, k, t) ==
    IF k \notin DOMAIN c.store THEN c
    ELSE IF IsExpired(c.store[k], t) THEN DictDel(c, k)
    ELSE MoveToEnd(c, k)

\* get: the value returned
GetResult(c, k, t) ==
    IF k \notin DOMAIN c.store THEN None
    ELSE IF IsExpired(c.store[k], t) THEN None
    ELSE Some(c.store[k].value)

\* set, lines 72-79: move an existing key to the end and store the new entry
SetInsert(c, k, v, ttl, t, dflt) ==
    LET c1 == IF k \in DOMAIN c.store THEN MoveToEnd(c, k) ELSE c
    IN  DictAssign(c1, k, [value |-> v, created_at |-> t,
                           ttl |-> EffectiveTtl(ttl, dflt)])

\* set, lines 82-83: evict the first item when over capacity
SetEvict(c, cap) == IF Len(c.order) > cap THEN PopFirst(c) ELSE c

SetCache(c, k, v, ttl, t, dflt, cap) == SetEvict(SetInsert(c, k, v, ttl, t, dflt), cap)

\* delete
DeleteCache(c, k) == IF k \in DOMAIN c.store THEN DictDel(c, k) ELSE c

\* cleanup_expired: the keys collected at lines 101-104
ExpiredKeys(c, t) == {k \in DOMAIN c.store : IsExpired(c.store[k], t)}

RECURSIVE DelAll(_, _)
DelAll(c, ks) ==
    IF ks = {} THEN c
    ELSE LET k == CHOOSE x \in ks : TRUE IN DelAll(DictDel(c, k), ks \ {k})

CleanupCache(c, t) == DelAll(c, ExpiredKeys(c, t))

\* ------------------------------------------------------- history helpers
\* lastOp: the operation, its key, the value set or the result returned and the ttl
\* argument of a set. Of a get: afterSet, the value of the set of the same key that
\* directly preceded it. Of a set: over (a new key brought the count above max_size),
\* evicted (the keys it removed), lrt (the least recently touched stored key, the new
\* key counted as touched last), mru (the key last touched by a get hit, when that is
\* the latest touch of all stored keys) and others (another key than mru was stored)
NoOp == [op |-> "none", key |-> 0, value |-> None, ttl |-> None, afterSet |-> None,
         over |-> FALSE, evicted |-> {}, lrt |-> None, mru |-> None, others |-> FALSE]

Touch(s, k) == Append(Without(s, k), k)

\* the history list restricted to the keys still stored
Prune(s, c) == SelectSeq(s, LAMBDA k : k \in DOMAIN c.store)

\* ------------------------------------------------------------ idle states
\* what each component holds while a specification exercises another one
NoFuture == [state |-> "none", res |-> <<>>]

HybridIdle ==
    /\ lexRanking = <<>>
    /\ semRanking = <<>>
    /\ hq = [top_k |-> 0, alpha |-> <<0, 1>>, use_parallel |-> FALSE]
    /\ hPhase = "idle"
    /\ lexFut = NoFuture
    /\ semFut = NoFuture
    /\ scored = <<>>
    /\ result = None
    /\ error = "none"

NoHistory == [state |-> "none", skipped |-> FALSE, cleared |-> FALSE, rebuilt |-> FALSE]
AbsentFile == [kind |-> "absent", hash |-> <<>>, document_count |-> 0]
CorruptFile == [kind |-> "corrupt", hash |-> <<>>, document_count |-> 0]
NoCall == [clear_existing |-> FALSE, documents |-> {}, current_hash |-> <<>>]

PipelineIdle ==
    /\ sameFiles = TRUE
    /\ dataVer = 0
    /\ stateFile = AbsentFile
    /\ vecDocs = {}
    /\ collExists = FALSE
    /\ lexDocs = {}
    /\ proc = "down"
    /\ initialized = FALSE
    /\ pI = "idle"
    /\ iq = NoCall
    /\ hist = NoHistory

Missing == <<"missing">>

FingerprintIdle ==
    /\ fpFiles = <<>>
    /\ fpDirs = [settings |-> <<>>, arg |-> None]
    /\ fpPhase = "idle"
    /\ fpBefore = None
    /\ fpAfter = None
    /\ fpNote = [changed |-> FALSE, readFailed |-> FALSE]

RerankerIdle ==
    /\ rrCall = [results |-> <<>>, top_k |-> 0, has_key |-> FALSE]
    /\ rrRet = [how |-> "none", list |-> <<>>]

LexicalIdle ==
    /\ lxIndex = None
    /\ lxCalls = "never"
    /\ lxRet = [op |-> "none"]

SemanticIdle ==
    /\ smClient = FALSE
    /\ smLocal = {}
    /\ smColl = {}
    /\ smRet = [op |-> "none"]

ServicesIdle ==
    /\ svRet = [op |-> "none"]
    /\ svStored = <<>>

NoRun == [ran |-> {}, answer |-> None, from |-> None]

ProcessIdle ==
    /\ prPc = "idle"
    /\ prReq = <<>>
    /\ prBefore = <<>>
    /\ prInit = FALSE
    /\ prOut = "none"
    /\ prRun = NoRun
    /\ prLive = <<>>

Queries == 1..NumQueries
\* ThreadPoolExecutor(max_workers=2)
Slots == {1, 2}

PoolIdle ==
    /\ plPhase = [q \in Queries |-> "idle"]
    /\ plFut = [q \in Queries |-> [lexical |-> NoFuture, semantic |-> NoFuture]]
    /\ plQueue = <<>>
    /\ plSlots = [s \in Slots |-> None]
    /\ plFused = [q \in Queries |-> None]

NoClear == [ended |-> FALSE, deleted |-> FALSE, recreated |-> FALSE, local |-> FALSE]

SharedSemanticIdle ==
    /\ scClient = FALSE
    /\ scColl = None
    /\ scDb = [exists |-> FALSE, ids |-> {}]
    /\ scLocal = {}
    /\ scPc = [t \in Threads |-> "idle"]
    /\ scOp = [t \in Threads |-> [op |-> "none", ids |-> {}]]
    /\ scObs = [t \in Threads |-> "none"]
    /\ scSetups = 0
    /\ scLastClear = NoClear

SharedLexicalIdle ==
    /\ lcDocuments = <<>>
    /\ lcIndex = None
    /\ lcBuild = [pc |-> "idle", documents |-> <<>>]
    /\ lcSearch = [pc |-> "idle", scores |-> <<>>]
    /\ lcOut = [op |-> "none"]

LateIdle ==
    /\ PoolIdle
    /\ SharedSemanticIdle
    /\ SharedLexicalIdle

EarlyIdle ==
    /\ FingerprintIdle
    /\ RerankerIdle
    /\ LexicalIdle
    /\ SemanticIdle
    /\ ServicesIdle
    /\ ProcessIdle

UnitsIdle ==
    /\ EarlyIdle
    /\ LateIdle

ThreadsIdle ==
    /\ lock = 0
    /\ pc = [t \in Threads |-> "idle"]
    /\ cur = [t \in Threads |-> [op |-> "none", key |-> 0]]
    /\ loc = [t \in Threads |-> None]
    /\ failed = [t \in Threads |-> FALSE]

CacheIdle ==
    /\ cache = EmptyCache
    /\ now = 0
    /\ max_size = MaxSize
    /\ default_ttl = 1
    /\ lastOp = NoOp
    /\ touched = <<>>
    /\ mruRead = None

\* ---------------------------------------------------------------- actions
InitCache ==
    /\ UnitsIdle
    /\ ThreadsIdle
    /\ HybridIdle
    /\ PipelineIdle
    /\ cache = EmptyCache
    /\ now = 0
    /\ max_size \in 0..MaxSize
    /\ default_ttl \in DefaultTtls
    /\ lastOp = NoOp
    /\ touched = <<>>
    /\ mruRead = None

Get(k) ==
    LET c2 == GetCache(cache, k, now)
        r  == GetResult(cache, k, now)
    IN  /\ cache' = c2
        /\ lastOp' = [NoOp EXCEPT !.op = "get", !.key = k, !.value = r,
                        !.afterSet = IF lastOp.op = "set" /\ lastOp.key = k
                                     THEN lastOp.value ELSE None]
        /\ touched' = IF r # None THEN Touch(touched, k) ELSE Prune(touched, c2)
        /\ mruRead' = IF r # None THEN Some(k)
                      ELSE IF mruRead = Some(k) THEN None ELSE mruRead
        /\ UNCHANGED <<now, max_size, default_ttl, threadVars, nonCacheVars>>

Set(k, v, ttl) ==
    LET c1 == SetInsert(cache, k, v, ttl, now, default_ttl)
        c2 == SetEvict(c1, max_size)
    IN  /\ cache' = c2
        /\ lastOp' = [NoOp EXCEPT !.op = "set", !.key = k, !.value = Some(v), !.ttl = ttl,
                        !.over = (k \notin DOMAIN cache.store /\
                                  Cardinality(DOMAIN cache.store) + 1 > max_size),
                        !.evicted = (DOMAIN c1.store) \ (DOMAIN c2.store),
                        !.lrt = Some(Head(Touch(touched, k))),
                        !.mru = mruRead,
                        !.others = \E x \in DOMAIN cache.store : Some(x) # mruRead]
        /\ touched' = Prune(Touch(touched, k), c2)
        /\ mruRead' = None
        /\ UNCHANGED <<now, max_size, default_ttl, threadVars, nonCacheVars>>

Delete(k) ==
    LET c2 == DeleteCache(cache, k)
    IN  /\ cache' = c2
        /\ lastOp' = [NoOp EXCEPT !.op = "delete", !.key = k]
        /\ touched' = Prune(touched, c2)
        /\ mruRead' = IF mruRead = Some(k) THEN None ELSE mruRead
        /\ UNCHANGED <<now, max_size, default_ttl, threadVars, nonCacheVars>>

Clear ==
    /\ cache' = EmptyCache
    /\ lastOp' = [NoOp EXCEPT !.op = "clear"]
    /\ touched' = <<>>
    /\ mruRead' = None
    /\ UNCHANGED <<now, max_size, default_ttl, threadVars, nonCacheVars>>

CleanupExpired ==
    LET c2 == CleanupCache(cache, now)
    IN  /\ cache' = c2
        /\ lastOp' = [NoOp EXCEPT !.op = "cleanup"]
        /\ touched' = Prune(touched, c2)
        /\ mruRead' = IF mruRead # None /\ mruRead[1] \notin DOMAIN c2.store
                      THEN None ELSE mruRead
        /\ UNCHANGED <<now, max_size, default_ttl, threadVars, nonCacheVars>>

Tick ==
    /\ now < MaxTime
    /\ now' = now + 1
    /\ lastOp' = [NoOp EXCEPT !.op = "tick"]
    /\ UNCHANGED <<cache, max_size, default_ttl, touched, mruRead, threadVars, nonCacheVars>>

NextCache ==
    \/ \E k \in Keys : Get(k)
    \/ \E k \in Keys, v \in Values, ttl \in TtlArgs : Set(k, v, ttl)
    \/ \E k \in Keys : Delete(k)
    \/ Clear
    \/ CleanupExpired
    \/ Tick

SpecCache == InitCache /\ [][NextCache]_vars

\* ------------------------------------------- InMemoryCache, concurrent callers
\* Every method body runs inside "with self._lock". A thread enters a method by
\* acquiring the lock; the body is split at each access to the map, the points where
\* another thread could run if nothing excluded it.

\* mutant: the lock excludes nobody
LockNeverHeld(l, t) == TRUE

\* threading.RLock: free, or already held by the calling thread
LockFree(l, t) == l = 0 \/ l = t

InBody(t) == pc[t] \notin {"idle"}

Histories == <<lastOp, touched, mruRead, nonCacheVars>>

InitThreads ==
    /\ UnitsIdle
    /\ ThreadsIdle
    /\ HybridIdle
    /\ PipelineIdle
    /\ cache = EmptyCache
    /\ now = 0
    /\ max_size \in 0..MaxSize
    /\ default_ttl = 1
    /\ lastOp = NoOp
    /\ touched = <<>>
    /\ mruRead = None

\* with self._lock: of get, set, delete, clear or cleanup_expired
Acquire(t, op, k) ==
    /\ pc[t] = "idle"
    /\ LockFree(lock, t)
    /\ lock' = t
    /\ pc' = [pc EXCEPT ![t] = op]
    /\ cur' = [cur EXCEPT ![t] = [op |-> op, key |-> k]]
    /\ UNCHANGED <<cache, now, max_size, default_ttl, Histories, loc, failed>>

\* get, line 56: entry = self._cache.get(key)
GetLookup(t) ==
    /\ pc[t] = "get"
    /\ LET k == cur[t].key
       IN  IF k \in DOMAIN cache.store
           THEN /\ loc' = [loc EXCEPT ![t] = Some(cache.store[k])]
                /\ pc' = [pc EXCEPT ![t] = "get2"]
           ELSE /\ loc' = loc
                /\ pc' = [pc EXCEPT ![t] = "release"]
    /\ UNCHANGED <<cache, now, max_size, default_ttl, Histories, lock, cur, failed>>

\* get, lines 60-66: del self._cache[key] or self._cache.move_to_end(key)
GetFinish(t) ==
    /\ pc[t] = "get2"
    /\ LET k == cur[t].key
       IN  IF k \notin DOMAIN cache.store
           THEN /\ failed' = [failed EXCEPT ![t] = TRUE]
                /\ cache' = cache
           ELSE /\ failed' = failed
                /\ cache' = IF IsExpired(loc[t][1], now) THEN DictDel(cache, k)
                            ELSE MoveToEnd(cache, k)
    /\ pc' = [pc EXCEPT ![t] = "release"]
    /\ loc' = [loc EXCEPT ![t] = None]
    /\ UNCHANGED <<now, max_size, default_ttl, Histories, lock, cur>>

\* set, line 72: if key in self._cache
SetTest(t) ==
    /\ pc[t] = "set"
    /\ loc' = [loc EXCEPT ![t] = Some(cur[t].key \in DOMAIN cache.store)]
    /\ pc' = [pc EXCEPT ![t] = "set2"]
    /\ UNCHANGED <<cache, now, max_size, default_ttl, Histories, lock, cur, failed>>

\* set, lines 73-79: move_to_end(key) when the test held, then the assignment
SetStore(t) ==
    /\ pc[t] = "set2"
    /\ LET k == cur[t].key
           e == [value |-> 1, created_at |-> now, ttl |-> EffectiveTtl(None, default_ttl)]
       IN  IF loc[t][1] /\ k \notin DOMAIN cache.store
           THEN /\ failed' = [failed EXCEPT ![t] = TRUE]
                /\ cache' = cache
                /\ pc' = [pc EXCEPT ![t] = "release"]
           ELSE /\ failed' = failed
                /\ cache' = DictAssign(IF loc[t][1] THEN MoveToEnd(cache, k) ELSE cache, k, e)
                /\ pc' = [pc EXCEPT ![t] = "set3"]
    /\ loc' = [loc EXCEPT ![t] = None]
    /\ UNCHANGED <<now, max_size, default_ttl, Histories, lock, cur>>

\* set, lines 82-83: popitem(last=False) when over capacity
SetTrim(t) ==
    /\ pc[t] = "set3"
    /\ cache' = SetEvict(cache, max_size)
    /\ pc' = [pc EXCEPT ![t] = "release"]
    /\ UNCHANGED <<now, max_size, default_ttl, Histories, lock, cur, loc, failed>>

\* delete, line 88: if key in self._cache
DeleteTest(t) ==
    /\ pc[t] = "delete"
    /\ IF cur[t].key \in DOMAIN cache.store
       THEN pc' = [pc EXCEPT ![t] = "delete2"]
       ELSE pc' = [pc EXCEPT ![t] = "release"]
    /\ UNCHANGED <<cache, now, max_size, default_ttl, Histories, lock, cur, loc, failed>>

\* delete, line 89: del self._cache[key]
DeleteDel(t) ==
    /\ pc[t] = "delete2"
    /\ LET k == cur[t].key
       IN  IF k \notin DOMAIN cache.store
           THEN failed' = [failed EXCEPT ![t] = TRUE] /\ cache' = cache
           ELSE failed' = failed /\ cache' = DictDel(cache, k)
    /\ pc' = [pc EXCEPT ![t] = "release"]
    /\ UNCHANGED <<now, max_size, default_ttl, Histories, lock, cur, loc>>

\* clear, line 96
ClearAll(t) ==
    /\ pc[t] = "clear"
    /\ cache' = EmptyCache
    /\ pc' = [pc EXCEPT ![t] = "release"]
    /\ UNCHANGED <<now, max_size, default_ttl, Histories, lock, cur, loc, failed>>

\* cleanup_expired, lines 101-104: collect the expired keys
CleanupCollect(t) ==
    /\ pc[t] = "cleanup"
    /\ loc' = [loc EXCEPT ![t] = Some(ExpiredKeys(cache, now))]
    /\ pc' = [pc EXCEPT ![t] = "cleanup2"]
    /\ UNCHANGED <<cache, now, max_size, default_ttl, Histories, lock, cur, failed>>

\* cleanup_expired, lines 105-106: del self._cache[key] for one collected key
CleanupDel(t) ==
    /\ pc[t] = "cleanup2"
    /\ IF loc[t][1] = {}
       THEN /\ pc' = [pc EXCEPT ![t] = "release"]
            /\ loc' = [loc EXCEPT ![t] = None]
            /\ UNCHANGED <<cache, failed>>
       ELSE LET k == CHOOSE x \in loc[t][1] : TRUE
            IN  IF k \notin DOMAIN cache.store
                THEN /\ failed' = [failed EXCEPT ![t] = TRUE]
                     /\ pc' = [pc EXCEPT ![t] = "release"]
                     /\ loc' = [loc EXCEPT ![t] = None]
                     /\ cache' = cache
                ELSE /\ cache' = DictDel(cache, k)
                     /\ loc' = [loc EXCEPT ![t] = Some(loc[t][1] \ {k})]
                     /\ UNCHANGED <<pc, failed>>
    /\ UNCHANGED <<now, max_size, default_ttl, Histories, lock, cur>>

\* leaving the with block
Release(t) ==
    /\ pc[t] = "release"
    /\ lock' = IF lock = t THEN 0 ELSE lock
    /\ pc' = [pc EXCEPT ![t] = "idle"]
    /\ cur' = [cur EXCEPT ![t] = [op |-> "none", key |-> 0]]
    /\ UNCHANGED <<cache, now, max_size, default_ttl, Histories, loc, failed>>

ClockTick ==
    /\ now < MaxTime
    /\ now' = now + 1
    /\ UNCHANGED <<cache, max_size, default_ttl, Histories, threadVars, nonCacheVars>>

NextThreads ==
    \/ \E t \in Threads, op \in {"get", "set", "delete"}, k \in Keys : Acquire(t, op, k)
    \/ \E t \in Threads, op \in {"clear", "cleanup"} : Acquire(t, op, 0)
    \/ \E t \in Threads : GetLookup(t)
    \/ \E t \in Threads : GetFinish(t)
    \/ \E t \in Threads : SetTest(t)
    \/ \E t \in Threads : SetStore(t)
    \/ \E t \in Threads : SetTrim(t)
    \/ \E t \in Threads : DeleteTest(t)
    \/ \E t \in Threads : DeleteDel(t)
    \/ \E t \in Threads : ClearAll(t)
    \/ \E t \in Threads : CleanupCollect(t)
    \/ \E t \in Threads : CleanupDel(t)
    \/ \E t \in Threads : Release(t)
    \/ ClockTick

SpecThreads == InitThreads /\ [][NextThreads]_vars

\* ------------------------------------------------ HybridSearcher (hybrid.py)
\* rational numbers <<numerator, denominator>>, denominator > 0
RZero == <<0, 1>>
RAdd(a, b) == <<a[1] * b[2] + b[1] * a[2], a[2] * b[2]>>
RMul(a, b) == <<a[1] * b[1], a[2] * b[2]>>
RInv(n) == <<1, n>>
RLess(a, b) == a[1] * b[2] < b[1] * a[2]
REq(a, b) == a[1] * b[2] = b[1] * a[2]

\* alpha = a / AlphaSteps
Alpha(a) == <<a, AlphaSteps>>
OneMinus(r) == <<r[2] - r[1], r[2]>>

Take(s, n) == SubSeq(s, 1, IF n < Len(s) THEN n ELSE Len(s))

\* all sequences of distinct elements of S
RECURSIVE Arrangements(_)
Arrangements(S) ==
    {<<>>} \cup UNION {{<<x>> \o r : r \in Arrangements(S \ {x})} : x \in S}

IterationOrders(S) == {p \in Arrangements(S) : Len(p) = Cardinality(S)}

\* a search of either origin over the ids it ranks: at most top_k results, in order
OriginSearch(ranking, top_k) == Take(ranking, top_k)

\* mutant: the candidates are fetched with top_k itself
FetchKSame(top_k) == top_k

\* fetch_k = top_k * 3
FetchK(top_k) == top_k * 3

\* mutant: enumerate(results) counts from 0
RankOfFromZero(results, id) ==
    (CHOOSE i \in 1..Len(results) :
        results[i] = id /\ \A j \in (i + 1)..Len(results) : results[j] # id) - 1

\* lexical_map[id][0], semantic_map[id][0]: enumerate(results, 1), a later entry of
\* the same id replacing an earlier one
RankOf(results, id) ==
    CHOOSE i \in 1..Len(results) :
        results[i] = id /\ \A j \in (i + 1)..Len(results) : results[j] # id

\* lines 128-173: the HybridSearchResult of one id
Fused(id, lex, sem, alpha, k) ==
    LET lexical_rank == IF id \in Range(lex) THEN Some(RankOf(lex, id)) ELSE None
        semantic_rank == IF id \in Range(sem) THEN Some(RankOf(sem, id)) ELSE None
        s0 == RZero
        s1 == IF lexical_rank # None
              THEN RAdd(s0, RMul(OneMinus(alpha), RInv(k + lexical_rank[1])))
              ELSE s0
        s2 == IF semantic_rank # None
              THEN RAdd(s1, RMul(alpha, RInv(k + semantic_rank[1])))
              ELSE s1
    IN  [id |-> id, score |-> s2, lexical_rank |-> lexical_rank,
         semantic_rank |-> semantic_rank]

\* an element put into a list sorted by descending score, after its equals
RECURSIVE InsertDesc(_, _)
InsertDesc(s, x) ==
    IF s = <<>> THEN <<x>>
    ELSE IF RLess(Head(s).score, x.score) THEN <<x>> \o s
    ELSE <<Head(s)>> \o InsertDesc(Tail(s), x)

\* mutant: the list is left in iteration order
SortKeepsOrder(s) == s

\* list.sort(key=score, reverse=True): stable, equal scores keep their order
RECURSIVE SortDesc(_)
SortDesc(s) ==
    IF s = <<>> THEN <<>>
    ELSE InsertDesc(SortDesc(SubSeq(s, 1, Len(s) - 1)), s[Len(s)])

\* lines 113-176: iter is the order in which the set all_ids is iterated
Fuse(lex, sem, alpha, k, iter) ==
    SortDesc([i \in 1..Len(iter) |-> Fused(iter[i], lex, sem, alpha, k)])

Pending == [state |-> "pending", res |-> <<>>]
Done(res) == [state |-> "ok", res |-> res]
Raised == [state |-> "failed", res |-> <<>>]

\* mutant: an origin search that raised counts as one that found nothing
FailureAsEmpty(fut) == IF fut.state = "failed" THEN Done(<<>>) ELSE fut

\* Future.result(), or the return of the direct call: the outcome as it is
Outcome(fut) == fut

\* The fusion treats ids by equality only, so every pair of rankings is, up to a
\* renaming of the ids, a pair whose lexical ranking is a prefix of DocOrder.
LexRankings == {Take(DocOrder, n) : n \in 0..Len(DocOrder)}

InitHybrid ==
    /\ UnitsIdle
    /\ CacheIdle
    /\ ThreadsIdle
    /\ PipelineIdle
    /\ lexRanking \in LexRankings
    /\ semRanking \in Arrangements(Docs)
    /\ hq = [top_k |-> 0, alpha |-> <<0, 1>>, use_parallel |-> FALSE]
    /\ hPhase = "idle"
    /\ lexFut = NoFuture
    /\ semFut = NoFuture
    /\ scored = <<>>
    /\ result = None
    /\ error = "none"

\* search, lines 93-111: in parallel mode both searches are submitted to the executor
\* and the caller waits for the lexical one; otherwise the lexical search runs first
Search(top_k, a, par) ==
    /\ hPhase = "idle"
    /\ hq' = [top_k |-> top_k, alpha |-> Alpha(a), use_parallel |-> par]
    /\ IF par
       THEN lexFut' = Pending /\ semFut' = Pending /\ hPhase' = "joinLexical"
       ELSE lexFut' = lexFut /\ semFut' = semFut /\ hPhase' = "seqLexical"
    /\ UNCHANGED <<lexRanking, semRanking, scored, result, error, nonHybridVars>>

\* a pool worker runs lexical_searcher.search(query, top_k=fetch_k, ...)
WorkerLexical(ok) ==
    /\ lexFut.state = "pending"
    /\ lexFut' = IF ok THEN Done(OriginSearch(lexRanking, FetchK(hq.top_k))) ELSE Raised
    /\ UNCHANGED <<lexRanking, semRanking, hq, hPhase, semFut, scored, result, error,
                   nonHybridVars>>

\* a pool worker runs semantic_searcher.search(query_embedding, top_k=fetch_k, ...)
WorkerSemantic(ok) ==
    /\ semFut.state = "pending"
    /\ semFut' = IF ok THEN Done(OriginSearch(semRanking, FetchK(hq.top_k))) ELSE Raised
    /\ UNCHANGED <<lexRanking, semRanking, hq, hPhase, lexFut, scored, result, error,
                   nonHybridVars>>

\* line 215: lexical_results = lexical_future.result()
JoinLexical ==
    /\ hPhase = "joinLexical"
    /\ lexFut.state \in {"ok", "failed"}
    /\ IF Outcome(lexFut).state = "failed"
       THEN hPhase' = "raised" /\ error' = "lexical"
       ELSE hPhase' = "joinSemantic" /\ error' = error
    /\ UNCHANGED <<lexRanking, semRanking, hq, lexFut, semFut, scored, result,
                   nonHybridVars>>

\* line 216: semantic_results = semantic_future.result()
JoinSemantic ==
    /\ hPhase = "joinSemantic"
    /\ semFut.state \in {"ok", "failed"}
    /\ IF Outcome(semFut).state = "failed"
       THEN hPhase' = "raised" /\ error' = "semantic"
       ELSE hPhase' = "fuse" /\ error' = error
    /\ UNCHANGED <<lexRanking, semRanking, hq, lexFut, semFut, scored, result,
                   nonHybridVars>>

\* lines 102-106: the lexical search called directly
SeqLexical(ok) ==
    /\ hPhase = "seqLexical"
    /\ LET fut == IF ok THEN Done(OriginSearch(lexRanking, FetchK(hq.top_k))) ELSE Raised
       IN  /\ lexFut' = fut
           /\ IF Outcome(fut).state = "failed"
              THEN hPhase' = "raised" /\ error' = "lexical"
              ELSE hPhase' = "seqSemantic" /\ error' = error
    /\ UNCHANGED <<lexRanking, semRanking, hq, semFut, scored, result, nonHybridVars>>

\* lines 107-111: the semantic search called directly
SeqSemantic(ok) ==
    /\ hPhase = "seqSemantic"
    /\ LET fut == IF ok THEN Done(OriginSearch(semRanking, FetchK(hq.top_k))) ELSE Raised
       IN  /\ semFut' = fut
           /\ IF Outcome(fut).state = "failed"
              THEN hPhase' = "raised" /\ error' = "semantic"
              ELSE hPhase' = "fuse" /\ error' = error
    /\ UNCHANGED <<lexRanking, semRanking, hq, lexFut, scored, result, nonHybridVars>>

\* lines 113-183: rank maps, RRF scores, sort, truncation to top_k
FuseAndReturn ==
    /\ hPhase = "fuse"
    /\ LET lex == Outcome(lexFut).res
           sem == Outcome(semFut).res
       IN  \E iter \in IterationOrders(Range(lex) \cup Range(sem)) :
               /\ scored' = Fuse(lex, sem, hq.alpha, RrfK, iter)
               /\ result' = Some(Take(scored', hq.top_k))
    /\ hPhase' = "returned"
    /\ UNCHANGED <<lexRanking, semRanking, hq, lexFut, semFut, error, nonHybridVars>>

NextHybrid ==
    \/ \E top_k \in 1..MaxTopK, a \in 0..AlphaSteps, par \in BOOLEAN : Search(top_k, a, par)
    \/ \E ok \in BOOLEAN : WorkerLexical(ok)
    \/ \E ok \in BOOLEAN : WorkerSemantic(ok)
    \/ JoinLexical
    \/ JoinSemantic
    \/ \E ok \in BOOLEAN : SeqLexical(ok)
    \/ \E ok \in BOOLEAN : SeqSemantic(ok)
    \/ FuseAndReturn

SpecHybrid == InitHybrid /\ [][NextHybrid]_vars

\* --------------------------------------- RAGPipeline.initialize (pipeline.py)
DataVersions == 0..NumVersions

\* loader.get_all_documents(): ids are positional (faq_0, fund_0, ...), so two
\* contents share their ids; content 0 yields no documents
DocsOf(v) == IF v = 0 THEN {} ELSE {<<i, v>> : i \in 1..DocsPerVersion}

IdsOf(docs) == {d[1] : d \in docs}

\* _get_current_state_hash(): a digest of the data files and the embedding config,
\* different for different contents
Fingerprint(v) == <<"md5", v>>

Readable(f) == f.kind = "json"

\* the fingerprint initialize computes: of the files at settings.faqs_path and
\* settings.funds_path, which are the loaded ones or, under another directory,
\* files that do not exist
CurrentHash == Fingerprint(IF sameFiles THEN dataVer ELSE 0)

\* the index state as the state machine of the design names it; countOk is whether
\* the collection's count can be read
IndexState(countOk) ==
    IF stateFile.kind = "absent" THEN "cold"
    ELSE IF stateFile.kind = "corrupt" THEN "corrupt"
    ELSE IF stateFile.hash # CurrentHash THEN "stale"
    ELSE IF ~countOk \/ vecDocs = {} THEN "corrupt"
    ELSE "matched"

\* collection.add(ids, ...): ids the collection already holds keep their old entry
CollectionAdd(coll, docs) == coll \cup {d \in docs : d[1] \notin IdsOf(coll)}

InitPipeline ==
    /\ UnitsIdle
    /\ CacheIdle
    /\ ThreadsIdle
    /\ HybridIdle
    /\ sameFiles \in BOOLEAN
    /\ dataVer \in DataVersions
    /\ stateFile = AbsentFile
    /\ vecDocs = {}
    /\ collExists = FALSE
    /\ lexDocs = {}
    /\ proc = "down"
    /\ initialized = FALSE
    /\ pI = "idle"
    /\ iq = NoCall
    /\ hist = NoHistory

\* the process starts: nothing in memory, the state file and the collection persist
StartProcess ==
    /\ proc = "down"
    /\ proc' = "up"
    /\ UNCHANGED <<sameFiles, dataVer, stateFile, vecDocs, collExists, lexDocs, initialized, pI, iq,
                   hist, nonPipeVars>>

\* the process is stopped or killed outside a collection add or a state-file write
StopProcess ==
    /\ proc = "up"
    /\ pI \notin {"index", "write"}
    /\ proc' = "down"
    /\ lexDocs' = {}
    /\ initialized' = FALSE
    /\ pI' = "idle"
    /\ iq' = NoCall
    /\ UNCHANGED <<sameFiles, dataVer, stateFile, vecDocs, collExists, hist, nonPipeVars>>

\* the process is killed during collection.add: any part of the batch may be stored
CrashInIndex ==
    /\ proc = "up" /\ pI = "index"
    /\ \E part \in SUBSET iq.documents :
           vecDocs' = IF collExists THEN CollectionAdd(vecDocs, part) ELSE vecDocs
    /\ proc' = "down"
    /\ lexDocs' = {}
    /\ initialized' = FALSE
    /\ pI' = "idle"
    /\ iq' = NoCall
    /\ UNCHANGED <<sameFiles, dataVer, stateFile, collExists, hist, nonPipeVars>>

\* the process is killed during write_text, which truncates the file and writes it in
\* place: the old text is gone and the new one is incomplete, or not yet touched
CrashInWrite ==
    /\ proc = "up" /\ pI = "write"
    /\ \E f \in {stateFile, CorruptFile} : stateFile' = f
    /\ proc' = "down"
    /\ lexDocs' = {}
    /\ initialized' = FALSE
    /\ pI' = "idle"
    /\ iq' = NoCall
    /\ UNCHANGED <<sameFiles, dataVer, vecDocs, collExists, hist, nonPipeVars>>

\* the data files are replaced while the process is down
DataChange(v) ==
    /\ proc = "down"
    /\ v # dataVer
    /\ dataVer' = v
    /\ UNCHANGED <<sameFiles, stateFile, vecDocs, collExists, lexDocs, proc, initialized, pI,
                   iq, hist, nonPipeVars>>

\* initialize(clear_existing), lines 146-162: return when initialized; load the
\* documents; with none, mark the pipeline initialized and return
Initialize(clear_existing) ==
    /\ proc = "up" /\ pI \in {"idle", "returned"}
    /\ ~initialized
    /\ LET documents == DocsOf(dataVer)
       IN  /\ iq' = [clear_existing |-> clear_existing, documents |-> documents,
                     current_hash |-> <<>>]
           /\ IF documents = {}
              THEN /\ initialized' = TRUE
                   /\ pI' = "returned"
                   /\ hist' = [NoHistory EXCEPT !.state = IndexState(TRUE), !.skipped = TRUE]
              ELSE /\ initialized' = initialized
                   /\ pI' = "lexical"
                   /\ hist' = NoHistory
    /\ UNCHANGED <<sameFiles, dataVer, stateFile, vecDocs, collExists, lexDocs, proc, nonPipeVars>>

\* line 168: self.lexical_searcher.index_documents(documents)
BuildLexical ==
    /\ proc = "up" /\ pI = "lexical"
    /\ lexDocs' = iq.documents
    /\ pI' = "decide"
    /\ UNCHANGED <<sameFiles, dataVer, stateFile, vecDocs, collExists, proc, initialized, iq, hist,
                   nonPipeVars>>

\* lines 173-216: current hash, state file, stored hash and the collection's count
\* decide between using the persistent store and re-indexing; countOk is whether
\* semantic_searcher._initialize() and document_count succeed
Decide(countOk) ==
    /\ proc = "up" /\ pI = "decide"
    /\ LET current_hash == CurrentHash
           checksCount == ~iq.clear_existing /\ Readable(stateFile)
                          /\ stateFile.hash = current_hash
           useStore == checksCount /\ countOk /\ Cardinality(vecDocs) > 0
       IN  /\ iq' = [iq EXCEPT !.current_hash = current_hash]
           /\ collExists' = IF checksCount /\ countOk THEN TRUE ELSE collExists
           /\ hist' = [hist EXCEPT !.state = IndexState(countOk), !.skipped = useStore]
           /\ IF useStore
              THEN initialized' = TRUE /\ pI' = "returned"
              ELSE initialized' = initialized /\ pI' = "clear"
    /\ UNCHANGED <<sameFiles, dataVer, stateFile, vecDocs, lexDocs, proc, nonPipeVars>>

\* lines 223-227: semantic_searcher.clear() inside try/except. It deletes the
\* collection and creates it again; a failure before the delete leaves it as it was,
\* a failure between the two leaves it deleted
ClearVectors(outcome) ==
    /\ proc = "up" /\ pI = "clear"
    /\ CASE outcome = "ok" ->
              vecDocs' = {} /\ collExists' = TRUE /\ hist' = [hist EXCEPT !.cleared = TRUE]
         [] outcome = "notDeleted" ->
              UNCHANGED <<vecDocs, collExists, hist>>
         [] outcome = "notCreated" ->
              vecDocs' = {} /\ collExists' = FALSE /\ hist' = [hist EXCEPT !.cleared = TRUE]
    /\ pI' = "embed"
    /\ UNCHANGED <<sameFiles, dataVer, stateFile, lexDocs, proc, initialized, iq, nonPipeVars>>

\* lines 230-231: embeddings = self.embedder.embed_texts(texts); it may raise
Embed(ok) ==
    /\ proc = "up" /\ pI = "embed"
    /\ pI' = IF ok THEN "index" ELSE "idle"
    /\ UNCHANGED <<sameFiles, dataVer, stateFile, vecDocs, collExists, lexDocs, proc, initialized, iq,
                   hist, nonPipeVars>>

\* line 234: semantic_searcher.index_documents(documents, embeddings); the add raises
\* on a collection that does not exist and may raise otherwise
IndexVectors(ok) ==
    /\ proc = "up" /\ pI = "index"
    /\ IF ok /\ collExists
       THEN /\ vecDocs' = CollectionAdd(vecDocs, iq.documents)
            /\ hist' = [hist EXCEPT !.rebuilt = (vecDocs' = iq.documents)]
            /\ pI' = "write"
       ELSE /\ vecDocs' = vecDocs
            /\ hist' = hist
            /\ pI' = "idle"
    /\ UNCHANGED <<sameFiles, dataVer, stateFile, collExists, lexDocs, proc, initialized, iq,
                   nonPipeVars>>

\* lines 238-250: the state file is written in place inside try/except (a failure
\* leaves the old file or a truncated one), then the pipeline is marked initialized
WriteState(outcome) ==
    /\ proc = "up" /\ pI = "write"
    /\ CASE outcome = "ok" ->
              stateFile' = [kind |-> "json", hash |-> iq.current_hash,
                            document_count |-> Cardinality(iq.documents)]
         [] outcome = "unchanged" -> stateFile' = stateFile
         [] outcome = "truncated" -> stateFile' = CorruptFile
    /\ initialized' = TRUE
    /\ pI' = "returned"
    /\ UNCHANGED <<sameFiles, dataVer, vecDocs, collExists, lexDocs, proc, iq, hist, nonPipeVars>>

NextPipeline ==
    \/ StartProcess
    \/ StopProcess
    \/ CrashInIndex
    \/ CrashInWrite
    \/ \E v \in DataVersions : DataChange(v)
    \/ \E c \in BOOLEAN : Initialize(c)
    \/ BuildLexical
    \/ \E countOk \in BOOLEAN : Decide(countOk)
    \/ \E o \in {"ok", "notDeleted", "notCreated"} : ClearVectors(o)
    \/ \E ok \in BOOLEAN : Embed(ok)
    \/ \E ok \in BOOLEAN : IndexVectors(ok)
    \/ \E o \in {"ok", "unchanged", "truncated"} : WriteState(o)

SpecPipeline == InitPipeline /\ [][NextPipeline]_vars

\* ------------------------- RAGPipeline._get_current_state_hash (pipeline.py)
\* a path is the list of its components; a file content is a list of bytes
Bytes == {"x", "y"}
FileNames == {"faqs.csv", "funds.csv"}
SettingsDataDir == <<"data">>
DataDirArgs == {None, Some(<<"data">>), Some(<<"data", "raw">>)}
EmbeddingConfig == <<"BAAI/bge-m3", "1024">>

RECURSIVE ByteLists(_)
ByteLists(n) ==
    IF n = 0 THEN {<<>>}
    ELSE ByteLists(n - 1) \cup {Append(b, x) : b \in ByteLists(n - 1), x \in Bytes}

Contents == {Missing} \cup ByteLists(MaxFileLen)

\* RAGPipeline.__init__: self.data_dir = data_dir or settings.data_dir
DataDir(dirs) == IF dirs.arg = None THEN dirs.settings ELSE dirs.arg[1]

\* DataLoader.load_faqs / load_funds: filepath = self.data_dir / filename
LoaderPath(dirs, f) == Append(DataDir(dirs), f)

\* Settings.faqs_path / funds_path: f"{self.data_dir}/raw/{self.faqs_file}"
SettingsPath(dirs, f) == dirs.settings \o <<"raw", f>>

FilePaths == {Append(SettingsDataDir, f) : f \in FileNames}
                \cup {SettingsDataDir \o <<"raw", f>> : f \in FileNames}

\* str(file_path)
RECURSIVE PathString(_)
PathString(p) ==
    IF Len(p) <= 1 THEN p ELSE <<Head(p), "/">> \o PathString(Tail(p))

\* hashlib.md5: the digest stands for the bytes the hasher was fed, in order (two
\* digests are equal exactly when the fed byte streams are)
Md5(stream) == <<"md5", stream>>

\* what one file feeds the hasher: its bytes, nothing when reading it fails, the
\* path string when it does not exist
FileDigestInput(files, path, readOk) ==
    IF files[path] # Missing
    THEN IF readOk THEN files[path] ELSE <<>>
    ELSE PathString(path)

\* _get_current_state_hash(): settings.faqs_path, settings.funds_path, then
\* settings.embedding_model and str(settings.embedding_dimension)
GetCurrentStateHash(files, dirs, readOk) ==
    Md5(FileDigestInput(files, SettingsPath(dirs, "faqs.csv"), readOk["faqs.csv"])
        \o FileDigestInput(files, SettingsPath(dirs, "funds.csv"), readOk["funds.csv"])
        \o EmbeddingConfig)

ReadFails(files, dirs, readOk) ==
    \E f \in FileNames : files[SettingsPath(dirs, f)] # Missing /\ ~readOk[f]

InitFingerprint ==
    /\ CacheIdle /\ ThreadsIdle /\ HybridIdle /\ PipelineIdle
    /\ RerankerIdle /\ LexicalIdle /\ SemanticIdle /\ ServicesIdle /\ ProcessIdle /\ LateIdle
    /\ fpFiles \in [FilePaths -> Contents]
    /\ fpDirs \in [settings : {SettingsDataDir}, arg : DataDirArgs]
    /\ fpPhase = "start"
    /\ fpBefore = None
    /\ fpAfter = None
    /\ fpNote = [changed |-> FALSE, readFailed |-> FALSE]

\* the fingerprint is computed
HashFirst(readOk) ==
    /\ fpPhase = "start"
    /\ fpBefore' = Some(GetCurrentStateHash(fpFiles, fpDirs, readOk))
    /\ fpNote' = [fpNote EXCEPT !.readFailed = ReadFails(fpFiles, fpDirs, readOk)]
    /\ fpPhase' = "hashed"
    /\ UNCHANGED <<fpFiles, fpDirs, fpAfter, nonFpVars>>

\* one byte of a file the loader reads is changed
ChangeByte(f, i, b) ==
    /\ fpPhase = "hashed"
    /\ LET path == LoaderPath(fpDirs, f)
       IN  /\ fpFiles[path] # Missing
           /\ i \in 1..Len(fpFiles[path])
           /\ fpFiles[path][i] # b
           /\ fpFiles' = [fpFiles EXCEPT ![path] = [@ EXCEPT ![i] = b]]
    /\ fpNote' = [fpNote EXCEPT !.changed = TRUE]
    /\ fpPhase' = "changed"
    /\ UNCHANGED <<fpDirs, fpBefore, fpAfter, nonFpVars>>

\* the fingerprint is computed again
HashAgain(readOk) ==
    /\ fpPhase \in {"hashed", "changed"}
    /\ fpAfter' = Some(GetCurrentStateHash(fpFiles, fpDirs, readOk))
    /\ fpNote' = [fpNote EXCEPT !.readFailed = @ \/ ReadFails(fpFiles, fpDirs, readOk)]
    /\ fpPhase' = "rehashed"
    /\ UNCHANGED <<fpFiles, fpDirs, fpBefore, nonFpVars>>

NextFingerprint ==
    \/ \E readOk \in [FileNames -> BOOLEAN] : HashFirst(readOk)
    \/ \E f \in FileNames, i \in 1..MaxFileLen, b \in Bytes : ChangeByte(f, i, b)
    \/ \E readOk \in [FileNames -> BOOLEAN] : HashAgain(readOk)

SpecFingerprint == InitFingerprint /\ [][NextFingerprint]_vars

\* -------------------------------------------------- Reranker (reranker.py)
\* the results handed to rerank: distinct ids, best first, scores descending
SearchResults ==
    {[i \in 1..Len(ids) |-> [id |-> ids[i], score |-> Len(ids) - i + 1]] :
        ids \in {a \in UNION {[1..n -> Docs] : n \in 0..MaxResults} : NoDup(a)}}

\* what the service may answer: items [index, relevance_score], of any length
\* and with any index, valid or not
ResponseIndexes == -1..MaxResults
Responses ==
    UNION {[1..n -> [index : ResponseIndexes, relevance_score : {9}]] : n \in 0..MaxResponse}

\* results[original_idx]: Python indexing, negative indexes count from the end
IndexInRange(seq, i) == -Len(seq) <= i /\ i < Len(seq)
PyItem(seq, i) == IF i >= 0 THEN seq[i + 1] ELSE seq[Len(seq) + i + 1]

\* lines 91-108: one RerankedResult per response item
Reranked(results, response) ==
    [n \in 1..Len(response) |->
        LET original_idx == response[n].index
            original_result == PyItem(results, original_idx)
        IN  [id |-> original_result.id,
             original_score |-> original_result.score,
             rerank_score |-> response[n].relevance_score,
             original_rank |-> original_idx + 1,
             new_rank |-> n]]

\* lines 112-127: results[:top_k], each with its own score and position
Fallback(results, top_k) ==
    [i \in 1..Len(Take(results, top_k)) |->
        [id |-> results[i].id,
         original_score |-> results[i].score,
         rerank_score |-> results[i].score,
         original_rank |-> i,
         new_rank |-> i]]

InitReranker ==
    /\ CacheIdle /\ ThreadsIdle /\ HybridIdle /\ PipelineIdle
    /\ FingerprintIdle /\ LexicalIdle /\ SemanticIdle /\ ServicesIdle /\ ProcessIdle /\ LateIdle
    /\ rrCall \in [results : SearchResults, top_k : 1..MaxTopK, has_key : BOOLEAN]
    /\ rrRet = [how |-> "none", list |-> <<>>]

\* lines 81-82: no results, nothing to rerank
RerankEmpty ==
    /\ rrRet.how = "none"
    /\ rrCall.results = <<>>
    /\ rrRet' = [how |-> "empty", list |-> <<>>]
    /\ UNCHANGED <<rrCall, nonRrVars>>

\* the client property raises (no key, import failure) or client.rerank raises
RerankServiceFails(cause) ==
    /\ rrRet.how = "none"
    /\ rrCall.results # <<>>
    /\ cause = "no key" <=> ~rrCall.has_key
    /\ rrRet' = [how |-> cause, list |-> Fallback(rrCall.results, rrCall.top_k)]
    /\ UNCHANGED <<rrCall, nonRrVars>>

\* the service answers; an index outside the results raises IndexError in the loop
RerankServiceAnswers(response) ==
    /\ rrRet.how = "none"
    /\ rrCall.results # <<>>
    /\ rrCall.has_key
    /\ IF \A n \in 1..Len(response) : IndexInRange(rrCall.results, response[n].index)
       THEN rrRet' = [how |-> "answered", list |-> Reranked(rrCall.results, response)]
       ELSE rrRet' = [how |-> "index error", list |-> Fallback(rrCall.results, rrCall.top_k)]
    /\ UNCHANGED <<rrCall, nonRrVars>>

NextReranker ==
    \/ RerankEmpty
    \/ \E cause \in {"no key", "client", "service"} : RerankServiceFails(cause)
    \/ \E response \in Responses : RerankServiceAnswers(response)

SpecReranker == InitReranker /\ [][NextReranker]_vars

\* ------------------------------------------- LexicalSearcher (lexical.py)
\* a document is its id, the tokens _tokenize finds in its text, and its source
LexDocA == [id |-> 1, tokens |-> {"nav"}, source |-> "faq"]
LexDocB == [id |-> 2, tokens |-> {"nav", "fund"}, source |-> "fund"]
Corpora == {<<>>, <<LexDocA>>, <<LexDocB>>, <<LexDocA, LexDocB>>, <<LexDocB, LexDocA>>}
QueryTokens == SUBSET {"nav", "fund"}
SourceFilters == {None, Some("faq"), Some("fund")}

NotBuiltNever(index) == FALSE

\* line 89: if self._index is None
NotBuilt(index) == index = None

\* self._index.get_scores(query_tokens): BM25 scores a document above zero when it
\* holds query terms, more terms scoring higher
Score(doc, query_tokens) == Cardinality(doc.tokens \cap query_tokens)

\* lines 99-100: the indexes by descending score; the sort is stable
RECURSIVE ByScore(_, _, _)
ByScore(S, docs, query_tokens) ==
    IF S = {} THEN <<>>
    ELSE LET first == CHOOSE i \in S : \A j \in S :
                          \/ Score(docs[i], query_tokens) > Score(docs[j], query_tokens)
                          \/ /\ Score(docs[i], query_tokens) = Score(docs[j], query_tokens)
                             /\ i <= j
         IN  <<first>> \o ByScore(S \ {first}, docs, query_tokens)

\* lines 102-123: skip scores <= 0 and other sources, append, stop once
\* len(results) >= top_k
RECURSIVE Collect(_, _, _, _, _, _)
Collect(order, docs, query_tokens, top_k, source_filter, results) ==
    IF order = <<>> THEN results
    ELSE LET doc == docs[Head(order)]
             skip == \/ Score(doc, query_tokens) <= 0
                     \/ source_filter # None /\ doc.source # source_filter[1]
         IN  IF skip
             THEN Collect(Tail(order), docs, query_tokens, top_k, source_filter, results)
             ELSE IF Len(results) + 1 >= top_k
                  THEN Append(results, doc.id)
                  ELSE Collect(Tail(order), docs, query_tokens, top_k, source_filter,
                               Append(results, doc.id))

\* search(query, top_k, source_filter): [raised, results]
LexicalSearch(index, query_tokens, top_k, source_filter) ==
    IF NotBuilt(index) THEN [raised |-> FALSE, results |-> <<>>]
    ELSE IF query_tokens = {} THEN [raised |-> FALSE, results |-> <<>>]
    ELSE IF index = None THEN [raised |-> TRUE, results |-> <<>>]
    ELSE [raised |-> FALSE,
          results |-> Collect(ByScore(1..Len(index[1]), index[1], query_tokens), index[1],
                              query_tokens, top_k, source_filter, <<>>)]

InitLexical ==
    /\ CacheIdle /\ ThreadsIdle /\ HybridIdle /\ PipelineIdle
    /\ FingerprintIdle /\ RerankerIdle /\ SemanticIdle /\ ServicesIdle /\ ProcessIdle /\ LateIdle
    /\ lxIndex = None
    /\ lxCalls = "never"
    /\ lxRet = [op |-> "none"]

\* index_documents(documents): an empty list changes nothing
IndexDocuments(documents) ==
    /\ IF documents = <<>>
       THEN /\ lxIndex' = lxIndex
            /\ lxCalls' = IF lxCalls = "never" THEN "empty" ELSE lxCalls
       ELSE /\ lxIndex' = Some(documents)
            /\ lxCalls' = "built"
    /\ lxRet' = [op |-> "index"]
    /\ UNCHANGED nonLxVars

SearchLexical(query_tokens, top_k, source_filter) ==
    /\ lxRet' = [op |-> "search", query_tokens |-> query_tokens, top_k |-> top_k,
                 source_filter |-> source_filter, calls |-> lxCalls,
                 out |-> LexicalSearch(lxIndex, query_tokens, top_k, source_filter)]
    /\ UNCHANGED <<lxIndex, lxCalls, nonLxVars>>

NextLexical ==
    \/ \E documents \in Corpora : IndexDocuments(documents)
    \/ \E q \in QueryTokens, top_k \in 0..MaxTopK, f \in SourceFilters : SearchLexical(q, top_k, f)

SpecLexical == InitLexical /\ [][NextLexical]_vars

\* ----------------------------------------- SemanticSearcher (semantic.py)
SemIds == {1, 2}
SemBatches == {ids \in UNION {[1..n -> SemIds] : n \in 0..MaxResults} : NoDup(ids)}

CountsAlwaysMatch(documents, n_embeddings) == FALSE

\* line 96: len(documents) != len(embeddings)
CountMismatch(documents, n_embeddings) == Len(documents) # n_embeddings

SemState == [client |-> smClient, local |-> smLocal, coll |-> smColl]

InitSemantic ==
    /\ CacheIdle /\ ThreadsIdle /\ HybridIdle /\ PipelineIdle
    /\ FingerprintIdle /\ RerankerIdle /\ LexicalIdle /\ ServicesIdle /\ ProcessIdle /\ LateIdle
    /\ smClient = FALSE
    /\ smLocal = {}
    /\ smColl = {}
    /\ smRet = [op |-> "none"]

\* index_documents(documents, embeddings): the count test, _initialize(), the local
\* map, then collection.add; _initialize() or the add may raise
SemanticIndex(documents, n_embeddings, initOk, addOk) ==
    /\ IF CountMismatch(documents, n_embeddings)
       THEN /\ UNCHANGED <<smClient, smLocal, smColl>>
            /\ smRet' = [op |-> "index", documents |-> documents,
                         n_embeddings |-> n_embeddings, before |-> SemState,
                         raised |-> "ValueError"]
       ELSE IF ~smClient /\ ~initOk
       THEN /\ UNCHANGED <<smClient, smLocal, smColl>>
            /\ smRet' = [op |-> "index", documents |-> documents,
                         n_embeddings |-> n_embeddings, before |-> SemState,
                         raised |-> "ImportError"]
       ELSE /\ smClient' = TRUE
            /\ smLocal' = smLocal \cup Range(documents)
            /\ smColl' = IF addOk THEN smColl \cup Range(documents) ELSE smColl
            /\ smRet' = [op |-> "index", documents |-> documents,
                         n_embeddings |-> n_embeddings, before |-> SemState,
                         raised |-> IF addOk THEN "none" ELSE "add"]
    /\ UNCHANGED nonSmVars

\* document_count: _initialize(), then collection.count()
SemanticCount ==
    /\ smClient' = TRUE
    /\ smRet' = [op |-> "count", before |-> SemState, count |-> Cardinality(smColl)]
    /\ UNCHANGED <<smLocal, smColl, nonSmVars>>

\* search(query_embedding, top_k): [] on an empty collection, else the top_k nearest
\* ids, in the order the collection ranks them
SemanticSearch(top_k, ranking) ==
    /\ Range(ranking) = smColl
    /\ smClient' = TRUE
    /\ smRet' = [op |-> "search", before |-> SemState,
                 results |-> IF Cardinality(smColl) = 0 THEN <<>> ELSE Take(ranking, top_k)]
    /\ UNCHANGED <<smLocal, smColl, nonSmVars>>

\* clear(): delete and re-create the collection, then empty the local map
SemanticClear ==
    /\ smClient' = TRUE
    /\ smColl' = {}
    /\ smLocal' = {}
    /\ smRet' = [op |-> "clear", before |-> SemState]
    /\ UNCHANGED nonSmVars

NextSemantic ==
    \/ \E documents \in SemBatches, n \in 0..MaxResults, initOk \in BOOLEAN, addOk \in BOOLEAN :
           SemanticIndex(documents, n, initOk, addOk)
    \/ SemanticCount
    \/ \E top_k \in 1..MaxTopK, ranking \in Arrangements(SemIds) \cup SemBatches :
           SemanticSearch(top_k, ranking)
    \/ SemanticClear

SpecSemantic == InitSemantic /\ [][NextSemantic]_vars

\* ------------------- QueryCache, EmbeddingCache and their factories (cache.py)
\* a string is the list of its characters
LowerChar(c) == CASE c = "A" -> "a" [] c = "F" -> "f" [] OTHER -> c
Lower(str) == [i \in 1..Len(str) |-> LowerChar(str[i])]

RECURSIVE LStrip(_)
LStrip(str) == IF str # <<>> /\ Head(str) = " " THEN LStrip(Tail(str)) ELSE str

RECURSIVE RStrip(_)
RStrip(str) ==
    IF str # <<>> /\ str[Len(str)] = " " THEN RStrip(SubSeq(str, 1, Len(str) - 1)) ELSE str

Strip(str) == LStrip(RStrip(str))

\* str.split(): the words between runs of whitespace
RECURSIVE SplitFrom(_, _, _)
SplitFrom(str, word, words) ==
    IF str = <<>> THEN (IF word = <<>> THEN words ELSE Append(words, word))
    ELSE IF Head(str) = " "
         THEN SplitFrom(Tail(str), <<>>, IF word = <<>> THEN words ELSE Append(words, word))
         ELSE SplitFrom(Tail(str), Append(word, Head(str)), words)

Split(str) == SplitFrom(str, <<>>, <<>>)

RECURSIVE Join(_, _)
Join(parts, sep) ==
    IF parts = <<>> THEN <<>>
    ELSE IF Len(parts) = 1 THEN parts[1]
    ELSE parts[1] \o <<sep>> \o Join(Tail(parts), sep)

\* str(top_k)
Digit(n) == CASE n = 0 -> "0" [] n = 1 -> "1" [] n = 2 -> "2" [] n = 3 -> "3" [] n = 4 -> "4"
              [] n = 5 -> "5" [] n = 6 -> "6" [] n = 7 -> "7" [] n = 8 -> "8" [] n = 9 -> "9"
RECURSIVE Str(_)
Str(n) == IF n < 10 THEN <<Digit(n)>> ELSE Append(Str(n \div 10), Digit(n % 10))

StripLowerOnly(query) == Lower(Strip(query))

\* line 268: " ".join(query.strip().lower().split())
NormalizeQuery(query) == Join(Split(Lower(Strip(query))), " ")

\* hashlib.sha256: as Md5, the digest stands for the text hashed
Sha256(stream) == <<"sha256", stream>>

\* QueryCache._make_key, lines 256-271
MakeKey(query, search_mode, top_k, source_filter) ==
    LET key_parts == <<NormalizeQuery(query), search_mode, Str(top_k),
                       Lower(Strip(IF source_filter = None THEN <<>> ELSE source_filter[1]))>>
    IN  <<"query:", Md5(Join(key_parts, "|"))>>

\* EmbeddingCache.get_embedding / set_embedding: f"emb:{self._hash_text(text)}"
EmbKey(text) == <<"emb:", Sha256(text)>>

\* InMemoryCache.__init__(default_ttl, max_size)
InMemoryCacheNew(ttl, size) == [default_ttl |-> ttl, max_size |-> size]

\* get_cache(), without Redis: InMemoryCache(), whose defaults are 3600 and 1000
GetCacheInstance == InMemoryCacheNew(3600, 1000)

\* QueryCache.__init__ / EmbeddingCache.__init__: cache or InMemoryCache(...)
QueryCacheOf(c) == IF c = None THEN InMemoryCacheNew(300, 500) ELSE c[1]
EmbeddingCacheOf(c) == IF c = None THEN InMemoryCacheNew(86400, 5000) ELSE c[1]

\* get_query_cache() and get_embedding_cache() wrap the one instance of get_cache()
GetQueryCache == QueryCacheOf(Some(GetCacheInstance))
GetEmbeddingCache == EmbeddingCacheOf(Some(GetCacheInstance))

\* the requests and texts the services are tried on
QueryStrings == {<<"a">>, <<" ", "A">>, <<"a", " ", "A">>, <<"a", " ", " ", "A", " ">>}
SearchModes == {<<"h", "y", "b", "r", "i", "d">>}
FilterStrings == {Some(<<"F">>)}
QueryRequests ==
    [query : QueryStrings, search_mode : SearchModes, top_k : {5}, source_filter : FilterStrings]
Texts == {<<"a">>, <<"A">>}
Batches == UNION {[1..n -> Texts] : n \in 0..MaxBatch}
Instants == {0, 300, 3601}

KeyOf(r) == MakeKey(r.query, r.search_mode, r.top_k, r.source_filter)

IsNoneNever(embedding) == FALSE

\* line 239: embedding is None
IsNone(embedding) == embedding = None

\* get_batch, lines 231-242: one get_embedding per text, the cache threaded through;
\* results holds the vectors (or None), uncached the 0-based indices of the misses
RECURSIVE GetBatch(_, _, _, _, _, _)
GetBatch(c, texts, i, t, results, uncached) ==
    IF i > Len(texts) THEN [cache |-> c, results |-> results, uncached |-> uncached]
    ELSE LET key == EmbKey(texts[i])
             embedding == GetResult(c, key, t)
         IN  GetBatch(GetCache(c, key, t), texts, i + 1, t, Append(results, embedding),
                      IF IsNone(embedding) THEN Append(uncached, i - 1) ELSE uncached)

Room(c, key) == key \in DOMAIN c.store \/ Cardinality(DOMAIN c.store) < MaxEntries

InitServices ==
    /\ ThreadsIdle /\ HybridIdle /\ PipelineIdle
    /\ FingerprintIdle /\ RerankerIdle /\ LexicalIdle /\ SemanticIdle /\ ProcessIdle /\ LateIdle
    /\ cache = EmptyCache
    /\ now = 0
    /\ default_ttl = GetQueryCache.default_ttl
    /\ max_size = GetQueryCache.max_size
    /\ lastOp = NoOp
    /\ touched = <<>>
    /\ mruRead = None
    /\ svRet = [op |-> "none"]
    /\ svStored = <<>>

\* QueryCache.set(query, search_mode, top_k, result, source_filter)
QueryCacheSet(r, response) ==
    /\ Room(cache, KeyOf(r))
    /\ cache' = SetCache(cache, KeyOf(r), response, None, now, default_ttl, max_size)
    /\ svStored' = [k \in (DOMAIN svStored \cup {KeyOf(r)}) \cap DOMAIN cache'.store |->
                       IF k = KeyOf(r)
                       THEN [kind |-> "query", at |-> now, value |-> response, request |-> r]
                       ELSE svStored[k]]
    /\ svRet' = [op |-> "query set", request |-> r]
    /\ UNCHANGED <<now, max_size, default_ttl, lastOp, touched, mruRead, nonSvVars>>

\* QueryCache.get(query, search_mode, top_k, source_filter)
QueryCacheGet(r) ==
    /\ cache' = GetCache(cache, KeyOf(r), now)
    /\ svRet' = [op |-> "query get", request |-> r, value |-> GetResult(cache, KeyOf(r), now)]
    /\ UNCHANGED <<now, max_size, default_ttl, lastOp, touched, mruRead, svStored, nonSvVars>>

\* EmbeddingCache.set_embedding(text, embedding)
SetEmbedding(text, embedding) ==
    /\ Room(cache, EmbKey(text))
    /\ cache' = SetCache(cache, EmbKey(text), embedding, None, now, default_ttl, max_size)
    /\ svStored' = [k \in (DOMAIN svStored \cup {EmbKey(text)}) \cap DOMAIN cache'.store |->
                       IF k = EmbKey(text)
                       THEN [kind |-> "emb", at |-> now, value |-> embedding, request |-> text]
                       ELSE svStored[k]]
    /\ svRet' = [op |-> "set_embedding", request |-> text]
    /\ UNCHANGED <<now, max_size, default_ttl, lastOp, touched, mruRead, nonSvVars>>

\* EmbeddingCache.get_batch(texts)
EmbeddingGetBatch(texts) ==
    LET out == GetBatch(cache, texts, 1, now, <<>>, <<>>)
    IN  /\ cache' = out.cache
        /\ svRet' = [op |-> "get_batch", texts |-> texts,
                     cached |-> [i \in 1..Len(texts) |-> GetResult(cache, EmbKey(texts[i]), now)],
                     results |-> out.results, uncached |-> out.uncached]
        /\ UNCHANGED <<now, max_size, default_ttl, lastOp, touched, mruRead, svStored,
                       nonSvVars>>

\* self.model.encode: the vector of a text
Encode(text) == <<"encoded", text>>

\* _embed_batch(texts), lines 119-128: one vector per text, in order
EmbedBatch(texts) == [i \in 1..Len(texts) |-> Encode(texts[i])]

\* embed_texts, line 99: uncached_texts = [texts[i] for i in uncached_indices]
UncachedTexts(texts, uncached) == [j \in 1..Len(uncached) |-> texts[uncached[j] + 1]]

\* embed_texts, lines 102-103: set_embedding(texts[idx], embedding) over
\* zip(uncached_indices, new_embeddings)
RECURSIVE StoreNew(_, _, _, _, _, _, _, _)
StoreNew(c, texts, uncached, new_embeddings, j, t, dflt, cap) ==
    IF j > Len(uncached) \/ j > Len(new_embeddings) THEN c
    ELSE StoreNew(SetCache(c, EmbKey(texts[uncached[j] + 1]), new_embeddings[j], None,
                           t, dflt, cap),
                  texts, uncached, new_embeddings, j + 1, t, dflt, cap)

\* mutant: the position in new_embeddings is not advanced
NewIdxStays(new_idx) == new_idx

\* embed_texts, line 112: new_idx += 1
NewIdxNext(new_idx) == new_idx + 1

\* embed_texts, lines 105-112: the cached vector where there is one, else the next
\* new one; new_idx is 0-based
RECURSIVE Assemble(_, _, _, _)
Assemble(cached_results, new_embeddings, i, new_idx) ==
    IF i > Len(cached_results) THEN <<>>
    ELSE IF cached_results[i] # None
    THEN <<cached_results[i][1]>> \o Assemble(cached_results, new_embeddings, i + 1, new_idx)
    ELSE <<new_embeddings[new_idx + 1]>>
         \o Assemble(cached_results, new_embeddings, i + 1, NewIdxNext(new_idx))

\* embed_texts(texts) with the cache in use, lines 85-114: the vectors returned, the
\* texts given to the model, and the cache afterwards
EmbedTextsOut(c, texts, t, dflt, cap) ==
    IF texts = <<>> THEN [result |-> <<>>, sent |-> <<>>, cache |-> c]
    ELSE LET batch == GetBatch(c, texts, 1, t, <<>>, <<>>)
         IN  IF batch.uncached = <<>>
             THEN [result |-> [i \in 1..Len(texts) |-> batch.results[i][1]], sent |-> <<>>,
                   cache |-> batch.cache]
             ELSE LET uncached_texts == UncachedTexts(texts, batch.uncached)
                      new_embeddings == EmbedBatch(uncached_texts)
                  IN  [result |-> Assemble(batch.results, new_embeddings, 1, 0),
                       sent |-> uncached_texts,
                       cache |-> StoreNew(batch.cache, texts, batch.uncached, new_embeddings,
                                          1, t, dflt, cap)]

\* Embedder.embed_texts(texts)
EmbedTexts(texts) ==
    LET out == EmbedTextsOut(cache, texts, now, default_ttl, max_size)
        new == {EmbKey(out.sent[j]) : j \in 1..Len(out.sent)}
    IN  /\ Cardinality(DOMAIN cache.store \cup new) <= MaxEntries
        /\ cache' = out.cache
        /\ svStored' = [k \in (DOMAIN svStored \cup new) \cap DOMAIN cache'.store |->
                           IF k \in new
                           THEN [kind |-> "emb", at |-> now, value |-> cache'.store[k].value,
                                 request |-> <<>>]
                           ELSE svStored[k]]
        /\ svRet' = [op |-> "embed_texts", texts |-> texts,
                     cached |-> [i \in 1..Len(texts) |->
                                    GetResult(cache, EmbKey(texts[i]), now)],
                     result |-> out.result, sent |-> out.sent]
        /\ UNCHANGED <<now, max_size, default_ttl, lastOp, touched, mruRead, nonSvVars>>

\* time passes
Elapse(t) ==
    /\ t > now
    /\ now' = t
    /\ svRet' = [op |-> "elapse"]
    /\ UNCHANGED <<cache, max_size, default_ttl, lastOp, touched, mruRead, svStored, nonSvVars>>

NextServices ==
    \/ \E r \in QueryRequests : QueryCacheSet(r, "response")
    \/ \E r \in QueryRequests : QueryCacheGet(r)
    \/ \E text \in Texts : SetEmbedding(text, "vector")
    \/ \E texts \in Batches : EmbeddingGetBatch(texts)
    \/ \E t \in Instants : Elapse(t)

SpecServices == InitServices /\ [][NextServices]_vars

\* the Embedder over the embedding cache of get_embedding_cache()
NextEmbedder ==
    \/ \E text \in Texts : SetEmbedding(text, "vector")
    \/ \E texts \in Batches : EmbedTexts(texts)
    \/ \E t \in Instants : Elapse(t)

SpecEmbedder == InitServices /\ [][NextEmbedder]_vars

\* ------------------------------------------- RAGPipeline.process (pipeline.py)
\* the requests: queries that differ in case only, a source filter absent, as the
\* documents spell it, and in capitals, with and without reranking
ProcessRequests ==
    [query : {<<"a">>, <<"A">>}, search_mode : SearchModes, top_k : {5},
     source_filter : {None, Some(<<"f">>), Some(<<"F">>)}, rerank : BOOLEAN]
ProcessKeys == {KeyOf(r) : r \in ProcessRequests}
DocumentText == <<"d">>
\* the start, and a time past the lifetime of an entry stored at the start
ProcessInstants == {0, 3601}
\* the answers the generator may give
Answers == {"x", "y"}

\* response.model_dump() of the QueryResponse built around an answer
Response(answer) == <<"response", answer>>

\* the stored entry of a key, expired or not
EntryOf(c, k) == IF k \in DOMAIN c.store THEN Some(c.store[k]) ELSE None

\* what get would return for an entry at time t
VisibleEntry(e, t) == IF e = None \/ IsExpired(e[1], t) THEN None ELSE Some(e[1].value)

EmbedStoresUnderRequestKey(c, r, t, dflt, cap) == SetCache(c, KeyOf(r), "vector", None, t, dflt, cap)

\* Embedder.embed_query with the embedding cache: get_embedding, and on a miss the
\* computed vector is stored with set_embedding
AfterEmbedQuery(c, r, t, dflt, cap) ==
    IF GetResult(c, EmbKey(r.query), t) # None
    THEN GetCache(c, EmbKey(r.query), t)
    ELSE SetCache(GetCache(c, EmbKey(r.query), t), EmbKey(r.query), "vector", None, t, dflt, cap)

\* Embedder.embed_texts during initialize: get_batch, then set_embedding per miss
AfterEmbedTexts(c, t, dflt, cap) ==
    IF GetResult(c, EmbKey(DocumentText), t) # None
    THEN GetCache(c, EmbKey(DocumentText), t)
    ELSE SetCache(GetCache(c, EmbKey(DocumentText), t), EmbKey(DocumentText), "vector",
                  None, t, dflt, cap)

\* mutant: process returns without caching its response
StoreNothing(c, r, response, t, dflt, cap) == c

\* lines 377-384: self._query_cache.set(query, search_mode, top_k, result, source_filter)
StoreResponse(c, r, response, t, dflt, cap) ==
    SetCache(c, KeyOf(r), response, None, t, dflt, cap)

\* the history of stored responses, of the keys that are still in the map
Kept(live, c) == [k \in ProcessKeys |-> IF k \in DOMAIN c.store THEN live[k] ELSE None]

\* the shared cache of get_cache() holds 1000 entries; the model runs it at the
\* capacities up to MaxSize
InitProcess ==
    /\ ThreadsIdle /\ HybridIdle /\ PipelineIdle
    /\ FingerprintIdle /\ RerankerIdle /\ LexicalIdle /\ SemanticIdle /\ ServicesIdle /\ LateIdle
    /\ cache = EmptyCache
    /\ now = 0
    /\ default_ttl = GetQueryCache.default_ttl
    /\ max_size \in 1..MaxSize
    /\ lastOp = NoOp
    /\ touched = <<>>
    /\ mruRead = None
    /\ prPc = "idle"
    /\ prReq = <<>>
    /\ prBefore = <<>>
    /\ prInit = FALSE
    /\ prOut = "none"
    /\ prRun = NoRun
    /\ prLive = [k \in ProcessKeys |-> None]

ProcessFrame == <<max_size, default_ttl, lastOp, touched, mruRead, nonPrVars>>

\* process(query, ...), lines 279-289: the query cache is asked first; a hit returns
\* QueryResponse(**cached)
ProcessLookup(r) ==
    /\ prPc = "idle"
    /\ prReq' = r
    /\ prBefore' = [k \in ProcessKeys |-> EntryOf(cache, k)]
    /\ cache' = GetCache(cache, KeyOf(r), now)
    /\ prLive' = Kept(prLive, cache')
    /\ LET cached == GetResult(cache, KeyOf(r), now)
       IN  IF cached # None
           THEN /\ prPc' = "idle" /\ prOut' = "hit"
                /\ prRun' = [ran |-> {}, answer |-> cached, from |-> prLive[KeyOf(r)]]
           ELSE /\ prPc' = "init" /\ prOut' = "none"
                /\ prRun' = NoRun
    /\ UNCHANGED <<now, prInit, ProcessFrame>>

\* lines 291-293: initialize() when not initialized; it may embed the documents
\* (caching their vectors) and it may raise, before or after that
ProcessInitialize(embeds, ok) ==
    /\ prPc = "init"
    /\ IF prInit
       THEN UNCHANGED <<cache, prInit, prOut>> /\ prPc' = "embed"
       ELSE /\ cache' = IF embeds THEN AfterEmbedTexts(cache, now, default_ttl, max_size)
                        ELSE cache
            /\ prInit' = ok
            /\ prPc' = IF ok THEN "embed" ELSE "idle"
            /\ prOut' = IF ok THEN prOut ELSE "raised"
    /\ prLive' = Kept(prLive, cache')
    /\ UNCHANGED <<now, prReq, prBefore, prRun, ProcessFrame>>

\* line 296: query_embedding = self.embedder.embed_query(query); the model may raise
ProcessEmbedQuery(ok) ==
    /\ prPc = "embed"
    /\ IF ok \/ GetResult(cache, EmbKey(prReq.query), now) # None
       THEN /\ cache' = AfterEmbedQuery(cache, prReq, now, default_ttl, max_size)
            /\ prPc' = "retrieve"
            /\ prOut' = prOut
            /\ prRun' = [prRun EXCEPT !.ran = @ \cup {"embed"}]
       ELSE /\ cache' = GetCache(cache, EmbKey(prReq.query), now)
            /\ prPc' = "idle"
            /\ prOut' = "raised"
            /\ prRun' = prRun
    /\ prLive' = Kept(prLive, cache')
    /\ UNCHANGED <<now, prReq, prBefore, prInit, ProcessFrame>>

\* lines 298-330: retrieval by mode with the source filter of the request, then the
\* rerank when the request asks for it, whose failure is caught; generation, whose
\* answer is the generator's choice, classification and response building (lines
\* 332-375); each of retrieval, generation and building may raise
ProcessStep(ok, answer) ==
    /\ prPc \in {"retrieve", "generate", "build"}
    /\ prPc' = IF ~ok THEN "idle"
               ELSE IF prPc = "retrieve" THEN "generate"
               ELSE IF prPc = "generate" THEN "build"
               ELSE "store"
    /\ prOut' = IF ok THEN prOut ELSE "raised"
    /\ prRun' = IF ~ok THEN prRun
                ELSE IF prPc = "retrieve"
                THEN [prRun EXCEPT !.ran = @ \cup {"retrieve"}
                                             \cup (IF prReq.rerank THEN {"rerank"} ELSE {})]
                ELSE IF prPc = "generate"
                THEN [prRun EXCEPT !.ran = @ \cup {"generate"}, !.answer = Some(Response(answer))]
                ELSE prRun
    /\ UNCHANGED <<cache, now, prReq, prBefore, prInit, prLive, ProcessFrame>>

\* lines 377-386: the response is cached and returned
ProcessStore ==
    /\ prPc = "store"
    /\ cache' = StoreResponse(cache, prReq, prRun.answer[1], now, default_ttl, max_size)
    /\ prLive' = Kept([prLive EXCEPT ![KeyOf(prReq)] =
                           Some([by |-> prReq, response |-> prRun.answer[1]])], cache')
    /\ prPc' = "idle"
    /\ prOut' = "returned"
    /\ UNCHANGED <<now, prReq, prBefore, prInit, prRun, ProcessFrame>>

\* time passes, between calls and within them
ProcessElapse(t) ==
    /\ t > now
    /\ now' = t
    /\ UNCHANGED <<cache, prPc, prReq, prBefore, prInit, prOut, prRun, prLive, ProcessFrame>>

NextProcess ==
    \/ \E r \in ProcessRequests : ProcessLookup(r)
    \/ \E embeds \in BOOLEAN, ok \in BOOLEAN : ProcessInitialize(embeds, ok)
    \/ \E ok \in BOOLEAN : ProcessEmbedQuery(ok)
    \/ \E ok \in BOOLEAN, answer \in Answers : ProcessStep(ok, answer)
    \/ ProcessStore
    \/ \E t \in ProcessInstants : ProcessElapse(t)

SpecProcess == InitProcess /\ [][NextProcess]_vars

\* ------------------- HybridSearcher shared by concurrent queries (hybrid.py)
\* get_hybrid_searcher() hands every caller the same HybridSearcher, whose
\* ThreadPoolExecutor(max_workers=2) serves the submitted searches oldest first.
\* A task is [q, origin, orphan]: the search of one origin with the arguments of
\* query q; orphan records that the call which holds its future has raised.
Task(q, origin) == [q |-> q, origin |-> origin, orphan |-> FALSE]

\* what the origin search returns for the arguments of the task
SearchOf(task) == <<[origin |-> task.origin, query |-> task.q]>>

\* the tasks of a call that raised stay where they are; nobody reads their futures
OrphanIf(task, q) == IF task # None /\ task.q = q THEN [task EXCEPT !.orphan = TRUE] ELSE task

Orphaned(queue, q) == [i \in 1..Len(queue) |-> OrphanIf(queue[i], q)]

\* mutant: Future.result() returns without waiting
IsDoneAlways(fut) == TRUE

\* Future.result() blocks until the future is done
IsDone(fut) == fut.state \in {"ok", "failed"}

\* mutant: a worker whose task nobody waits for keeps the task
KeepsOrphan(task) == IF task.orphan THEN task ELSE None

\* a worker that finished its task is idle again
Released(task) == None

InitPool ==
    /\ CacheIdle /\ ThreadsIdle /\ HybridIdle /\ PipelineIdle
    /\ EarlyIdle
    /\ SharedSemanticIdle
    /\ SharedLexicalIdle
    /\ PoolIdle

\* search, line 95, and _parallel_search, lines 201-206: the lexical search of the
\* call is submitted
PoolSubmitLexical(q) ==
    /\ plPhase[q] \in {"idle", "returned", "raised"}
    /\ plPhase' = [plPhase EXCEPT ![q] = "submitSemantic"]
    /\ plFut' = [plFut EXCEPT ![q] = [lexical |-> Pending, semantic |-> NoFuture]]
    /\ plQueue' = Append(plQueue, Task(q, "lexical"))
    /\ plFused' = [plFused EXCEPT ![q] = None]
    /\ UNCHANGED <<plSlots, nonPlVars>>

\* _parallel_search, lines 207-212: the semantic search of the call is submitted
PoolSubmitSemantic(q) ==
    /\ plPhase[q] = "submitSemantic"
    /\ plPhase' = [plPhase EXCEPT ![q] = "joinLexical"]
    /\ plFut' = [plFut EXCEPT ![q].semantic = Pending]
    /\ plQueue' = Append(plQueue, Task(q, "semantic"))
    /\ UNCHANGED <<plSlots, plFused, nonPlVars>>

\* an idle worker takes the oldest submitted task
WorkerTake(s) ==
    /\ plSlots[s] = None
    /\ plQueue # <<>>
    /\ plSlots' = [plSlots EXCEPT ![s] = Head(plQueue)]
    /\ plQueue' = Tail(plQueue)
    /\ UNCHANGED <<plPhase, plFut, plFused, nonPlVars>>

\* the search a worker runs returns or raises: the future of the task is set
WorkerFinish(s, ok) ==
    /\ plSlots[s] # None
    /\ LET task == plSlots[s]
           fut == IF ok THEN Done(SearchOf(task)) ELSE Raised
       IN  /\ plFut' = IF task.orphan THEN plFut
                       ELSE [plFut EXCEPT ![task.q][task.origin] = fut]
           /\ plSlots' = [plSlots EXCEPT ![s] = Released(task)]
    /\ UNCHANGED <<plPhase, plQueue, plFused, nonPlVars>>

\* line 215: lexical_results = lexical_future.result(); an error of the search is
\* raised to the caller of search, the semantic task stays in the pool
PoolJoinLexical(q) ==
    /\ plPhase[q] = "joinLexical"
    /\ IsDone(plFut[q].lexical)
    /\ IF plFut[q].lexical.state = "failed"
       THEN /\ plPhase' = [plPhase EXCEPT ![q] = "raised"]
            /\ plQueue' = Orphaned(plQueue, q)
            /\ plSlots' = [s \in Slots |-> OrphanIf(plSlots[s], q)]
       ELSE /\ plPhase' = [plPhase EXCEPT ![q] = "joinSemantic"]
            /\ UNCHANGED <<plQueue, plSlots>>
    /\ UNCHANGED <<plFut, plFused, nonPlVars>>

\* line 216: semantic_results = semantic_future.result()
PoolJoinSemantic(q) ==
    /\ plPhase[q] = "joinSemantic"
    /\ IsDone(plFut[q].semantic)
    /\ plPhase' = [plPhase EXCEPT ![q] = IF plFut[q].semantic.state = "failed"
                                         THEN "raised" ELSE "fuse"]
    /\ UNCHANGED <<plFut, plQueue, plSlots, plFused, nonPlVars>>

\* lines 113-183: the fusion of the two lists _parallel_search returned
PoolFuse(q) ==
    /\ plPhase[q] = "fuse"
    /\ plFused' = [plFused EXCEPT ![q] = Some(<<plFut[q].lexical.res,
                                                plFut[q].semantic.res>>)]
    /\ plPhase' = [plPhase EXCEPT ![q] = "returned"]
    /\ UNCHANGED <<plFut, plQueue, plSlots, nonPlVars>>

WorkerStep(s) == WorkerTake(s) \/ \E ok \in BOOLEAN : WorkerFinish(s, ok)

CallerStep(q) == PoolJoinLexical(q) \/ PoolJoinSemantic(q) \/ PoolFuse(q)

NextPool ==
    \/ \E q \in Queries : PoolSubmitLexical(q)
    \/ \E q \in Queries : PoolSubmitSemantic(q)
    \/ \E s \in Slots : WorkerTake(s)
    \/ \E s \in Slots, ok \in BOOLEAN : WorkerFinish(s, ok)
    \/ \E q \in Queries : PoolJoinLexical(q)
    \/ \E q \in Queries : PoolJoinSemantic(q)
    \/ \E q \in Queries : PoolFuse(q)

SpecPool == InitPool /\ [][NextPool]_vars

\* the pool threads run every task they took to its end and take the next one; a
\* caller that is blocked in Future.result() resumes when the future is done; a
\* caller between its two submits goes on to the second
SpecPoolFair ==
    /\ SpecPool
    /\ \A s \in Slots : WF_vars(WorkerStep(s))
    /\ \A q \in Queries : WF_vars(CallerStep(q) \/ PoolSubmitSemantic(q))

\* ----------------------- SemanticSearcher shared by threads (semantic.py)
\* One SemanticSearcher (get_semantic_searcher) called from several threads. No
\* method takes a lock; a method is split at each access to _client, _collection
\* or the database. A call of the database may raise.
Live == Some("live")
Stale == Some("stale")

SharedOps == {[op |-> "search", ids |-> {}], [op |-> "count", ids |-> {}],
              [op |-> "clear", ids |-> {}]}
             \cup {[op |-> "index", ids |-> ids] : ids \in {{1}, {1, 2}}}

\* what a call through self._collection meets
Met(coll, db) ==
    IF coll = None THEN "no handle"
    ELSE IF coll = Stale THEN "deleted"
    ELSE IF db.ids = {} THEN "empty" ELSE "complete"

InitSharedSemantic ==
    /\ CacheIdle /\ ThreadsIdle /\ HybridIdle /\ PipelineIdle
    /\ EarlyIdle
    /\ PoolIdle
    /\ SharedLexicalIdle
    /\ scClient = FALSE
    /\ scColl = None
    /\ scDb \in {[exists |-> FALSE, ids |-> {}], [exists |-> TRUE, ids |-> {1, 2}]}
    /\ scLocal = {}
    /\ scPc = [t \in Threads |-> "idle"]
    /\ scOp = [t \in Threads |-> [op |-> "none", ids |-> {}]]
    /\ scObs = [t \in Threads |-> "none"]
    /\ scSetups = 0
    /\ scLastClear = NoClear

\* a thread calls search, document_count, clear or index_documents
SharedCall(t, o) ==
    /\ scPc[t] = "idle"
    /\ scPc' = [scPc EXCEPT ![t] = "initialize"]
    /\ scOp' = [scOp EXCEPT ![t] = o]
    /\ scObs' = [scObs EXCEPT ![t] = "none"]
    /\ UNCHANGED <<scClient, scColl, scDb, scLocal, scSetups, scLastClear, nonScVars>>

\* _initialize, lines 57-58: if self._client is not None: return
InitializeTest(t) ==
    /\ scPc[t] = "initialize"
    /\ scPc' = [scPc EXCEPT ![t] = IF scClient THEN "body" ELSE "client"]
    /\ UNCHANGED <<scClient, scColl, scDb, scLocal, scOp, scObs, scSetups, scLastClear,
                   nonScVars>>

\* _initialize, lines 60-72: the import and the client; an error is raised to the caller
InitializeClient(t, ok) ==
    /\ scPc[t] = "client"
    /\ IF ok
       THEN /\ scClient' = TRUE
            /\ scPc' = [scPc EXCEPT ![t] = "collection"]
            /\ scObs' = scObs
       ELSE /\ scClient' = scClient
            /\ scPc' = [scPc EXCEPT ![t] = "idle"]
            /\ scObs' = [scObs EXCEPT ![t] = "raised"]
    /\ UNCHANGED <<scColl, scDb, scLocal, scOp, scSetups, scLastClear, nonScVars>>

\* _initialize, lines 74-77: self._collection = get_or_create_collection(...)
InitializeCollection(t, ok) ==
    /\ scPc[t] = "collection"
    /\ IF ok
       THEN /\ scDb' = IF scDb.exists THEN scDb ELSE [exists |-> TRUE, ids |-> {}]
            /\ scColl' = Live
            /\ scSetups' = scSetups + 1
            /\ scPc' = [scPc EXCEPT ![t] = "body"]
            /\ scObs' = scObs
       ELSE /\ UNCHANGED <<scDb, scColl, scSetups>>
            /\ scPc' = [scPc EXCEPT ![t] = "idle"]
            /\ scObs' = [scObs EXCEPT ![t] = "raised"]
    /\ UNCHANGED <<scClient, scLocal, scOp, scLastClear, nonScVars>>

\* search, lines 150-183, and document_count, line 189: the collection is read
\* through self._collection
SharedRead(t) ==
    /\ scPc[t] = "body"
    /\ scOp[t].op \in {"search", "count"}
    /\ scObs' = [scObs EXCEPT ![t] = Met(scColl, scDb)]
    /\ scPc' = [scPc EXCEPT ![t] = "idle"]
    /\ UNCHANGED <<scClient, scColl, scDb, scLocal, scOp, scSetups, scLastClear, nonScVars>>

\* index_documents, lines 104-122: the local map, then self._collection.add
SharedIndex(t) ==
    /\ scPc[t] = "body"
    /\ scOp[t].op = "index"
    /\ scLocal' = scLocal \cup scOp[t].ids
    /\ scDb' = IF scColl = Live THEN [scDb EXCEPT !.ids = @ \cup scOp[t].ids] ELSE scDb
    /\ scObs' = [scObs EXCEPT ![t] = IF scColl = Live THEN "added" ELSE Met(scColl, scDb)]
    /\ scPc' = [scPc EXCEPT ![t] = "idle"]
    /\ UNCHANGED <<scClient, scColl, scOp, scSetups, scLastClear, nonScVars>>

\* clear, line 194: self._client.delete_collection(name); raises when no collection
\* of that name exists
ClearDelete(t) ==
    /\ scPc[t] = "body"
    /\ scOp[t].op = "clear"
    /\ IF scDb.exists
       THEN /\ scDb' = [exists |-> FALSE, ids |-> {}]
            /\ scColl' = IF scColl = Live THEN Stale ELSE scColl
            /\ scPc' = [scPc EXCEPT ![t] = "recreate"]
            /\ UNCHANGED <<scObs, scLastClear>>
       ELSE /\ UNCHANGED <<scDb, scColl>>
            /\ scPc' = [scPc EXCEPT ![t] = "idle"]
            /\ scObs' = [scObs EXCEPT ![t] = "raised"]
            /\ scLastClear' = [NoClear EXCEPT !.ended = TRUE]
    /\ UNCHANGED <<scClient, scLocal, scOp, scSetups, nonScVars>>

\* clear, lines 195-198: self._collection = create_collection(...); raises when the
\* database does, or when a collection of that name exists again
ClearCreate(t, ok) ==
    /\ scPc[t] = "recreate"
    /\ IF ok /\ ~scDb.exists
       THEN /\ scDb' = [exists |-> TRUE, ids |-> {}]
            /\ scColl' = Live
            /\ scPc' = [scPc EXCEPT ![t] = "local"]
            /\ UNCHANGED <<scObs, scLastClear>>
       ELSE /\ UNCHANGED <<scDb, scColl>>
            /\ scPc' = [scPc EXCEPT ![t] = "idle"]
            /\ scObs' = [scObs EXCEPT ![t] = "raised"]
            /\ scLastClear' = [NoClear EXCEPT !.ended = TRUE, !.deleted = TRUE]
    /\ UNCHANGED <<scClient, scLocal, scOp, scSetups, nonScVars>>

\* clear, line 199: self._documents.clear()
ClearLocal(t) ==
    /\ scPc[t] = "local"
    /\ scLocal' = {}
    /\ scPc' = [scPc EXCEPT ![t] = "idle"]
    /\ scObs' = [scObs EXCEPT ![t] = "cleared"]
    /\ scLastClear' = [ended |-> TRUE, deleted |-> TRUE, recreated |-> TRUE, local |-> TRUE]
    /\ UNCHANGED <<scClient, scColl, scDb, scOp, scSetups, nonScVars>>

NextSharedSemantic ==
    \/ \E t \in Threads, o \in SharedOps : SharedCall(t, o)
    \/ \E t \in Threads : InitializeTest(t)
    \/ \E t \in Threads, ok \in BOOLEAN : InitializeClient(t, ok)
    \/ \E t \in Threads, ok \in BOOLEAN : InitializeCollection(t, ok)
    \/ \E t \in Threads : SharedRead(t)
    \/ \E t \in Threads : SharedIndex(t)
    \/ \E t \in Threads : ClearDelete(t)
    \/ \E t \in Threads, ok \in BOOLEAN : ClearCreate(t, ok)
    \/ \E t \in Threads : ClearLocal(t)

SpecSharedSemantic == InitSharedSemantic /\ [][NextSharedSemantic]_vars

\* ------------------------- LexicalSearcher shared by threads (lexical.py)
\* One LexicalSearcher (get_lexical_searcher): a thread in index_documents beside a
\* thread in search. Neither method takes a lock; each is split at its accesses to
\* self._documents and self._index.
InitSharedLexical ==
    /\ CacheIdle /\ ThreadsIdle /\ HybridIdle /\ PipelineIdle
    /\ EarlyIdle
    /\ PoolIdle
    /\ SharedSemanticIdle
    /\ SharedLexicalIdle

\* index_documents, lines 57-68: an empty list returns; else self._documents and
\* self._tokenized_docs are assigned
BuildDocuments(documents) ==
    /\ lcBuild.pc = "idle"
    /\ IF documents = <<>>
       THEN UNCHANGED <<lcDocuments, lcBuild>>
       ELSE /\ lcDocuments' = documents
            /\ lcBuild' = [pc |-> "index", documents |-> documents]
    /\ UNCHANGED <<lcIndex, lcSearch, lcOut, nonLcVars>>

\* index_documents, line 70: self._index = BM25Okapi(self._tokenized_docs)
BuildIndex ==
    /\ lcBuild.pc = "index"
    /\ lcIndex' = Some(lcBuild.documents)
    /\ lcBuild' = [pc |-> "idle", documents |-> <<>>]
    /\ UNCHANGED <<lcDocuments, lcSearch, lcOut, nonLcVars>>

\* search, lines 89-100: no index returns []; else the scores of self._index
SearchScores ==
    /\ lcSearch.pc = "idle"
    /\ IF NotBuilt(lcIndex)
       THEN /\ lcOut' = [op |-> "search", built |-> FALSE, scores |-> <<>>,
                         documents |-> <<>>]
            /\ lcSearch' = lcSearch
       ELSE /\ lcSearch' = [pc |-> "collect", scores |-> lcIndex[1]]
            /\ lcOut' = lcOut
    /\ UNCHANGED <<lcDocuments, lcIndex, lcBuild, nonLcVars>>

\* search, lines 102-125: the scored positions are looked up in self._documents
SearchCollect ==
    /\ lcSearch.pc = "collect"
    /\ lcOut' = [op |-> "search", built |-> TRUE, scores |-> lcSearch.scores,
                 documents |-> lcDocuments]
    /\ lcSearch' = [pc |-> "idle", scores |-> <<>>]
    /\ UNCHANGED <<lcDocuments, lcIndex, lcBuild, nonLcVars>>

NextSharedLexical ==
    \/ \E documents \in Corpora : BuildDocuments(documents)
    \/ BuildIndex
    \/ SearchScores
    \/ SearchCollect

SpecSharedLexical == InitSharedLexical /\ [][NextSharedLexical]_vars

\* ------------------------------------------------------------ cache claims

\* C1 (as claimed): a set stores the ttl passed to it (the default only when none was
\* passed), and get(k) returns the stored value iff an entry for k exists and
\* now < created_at + ttl; otherwise it returns none and an entry that was there is
\* removed.
C1_GetVisibleIffBeforeExpiry ==
    [][ /\ lastOp'.op = "set" /\ lastOp'.key \in DOMAIN cache'.store
            => cache'.store[lastOp'.key].ttl =
                   (IF lastOp'.ttl = None THEN default_ttl ELSE lastOp'.ttl[1])
        /\ lastOp'.op = "get"
            => LET k == lastOp'.key
                   has == k \in DOMAIN cache.store
                   visible == has /\ now < cache.store[k].created_at + cache.store[k].ttl
               IN  /\ lastOp'.value = (IF visible THEN Some(cache.store[k].value) ELSE None)
                   /\ (has /\ ~visible => k \notin DOMAIN cache'.store)
      ]_vars

\* C2 (as claimed): for every max_size, a get that directly follows the set of its key,
\* with no clock advance between them, returns the value that was set.
C2_RoundTripAnyCapacity ==
    lastOp.op = "get" /\ lastOp.afterSet # None => lastOp.value = lastOp.afterSet

\* C2 (amended): the round trip holds for every cache of max_size >= 1.
C2_RoundTrip ==
    lastOp.op = "get" /\ lastOp.afterSet # None /\ max_size >= 1
        => lastOp.value = lastOp.afterSet

\* a round trip through a cache that is full after the set
C2_Witness ==
    /\ lastOp.op = "get" /\ lastOp.afterSet # None /\ lastOp.value = lastOp.afterSet
    /\ max_size >= 1 /\ Len(cache.order) = max_size
    /\ now > 0

EvictsExactlyLru ==
    /\ lastOp.evicted = {lastOp.lrt[1]}
    /\ lastOp.key \notin lastOp.evicted
    /\ (lastOp.mru # None /\ lastOp.others => lastOp.mru[1] \notin lastOp.evicted)

\* C3 (as claimed): a set of a new key that brings the count above max_size evicts
\* exactly one entry, the least recently touched one; never the key just inserted and
\* never the key a get hit touched last.
C3_LruEvictionAnyCapacity ==
    lastOp.op = "set" /\ lastOp.over => EvictsExactlyLru

\* C3 (amended): the same for every cache of max_size >= 1.
C3_LruEviction ==
    lastOp.op = "set" /\ lastOp.over /\ max_size >= 1 => EvictsExactlyLru

\* an eviction that spared the key a get had just promoted
C3_Witness ==
    /\ lastOp.op = "set" /\ lastOp.over /\ max_size >= 2
    /\ lastOp.mru # None /\ lastOp.others
    /\ Cardinality(lastOp.evicted) = 1
    /\ lastOp.mru[1] \in DOMAIN cache.store
    /\ cache.order[1] = lastOp.mru[1]

StructurallyValid ==
    /\ Len(cache.order) <= max_size
    /\ NoDup(cache.order)
    /\ Range(cache.order) = DOMAIN cache.store

\* C4: under every interleaving of get, set, delete, clear and cleanup_expired from
\* concurrent threads, at most one thread is inside a method body and it holds the
\* lock; whenever no thread is inside a body the cache is structurally valid
\* (size <= max_size, no key twice, the order lists exactly the stored keys); and no
\* map operation of any thread has raised.
C4_ThreadSafe ==
    /\ \A t, u \in Threads : InBody(t) /\ InBody(u) => t = u
    /\ \A t \in Threads : InBody(t) => lock = t
    /\ (\A t \in Threads : ~InBody(t)) => StructurallyValid
    /\ NoDup(cache.order) /\ Range(cache.order) = DOMAIN cache.store
    /\ \A t \in Threads : ~failed[t]

\* one thread is between the assignment and the eviction of a set that went over
\* capacity while the other is idle and has to wait
C4_Witness ==
    \E t, u \in Threads :
        /\ t # u /\ pc[t] = "set3" /\ pc[u] = "idle" /\ lock = t
        /\ Len(cache.order) > max_size /\ max_size >= 1
        /\ ~ENABLED Acquire(u, "get", 1)

\* ----------------------------------------------------------- hybrid claims
Ids(s) == [i \in 1..Len(s) |-> s[i].id]

\* the candidates the call fetched from each origin, as the claims describe them
LexCandidates == Take(lexRanking, 3 * hq.top_k)
SemCandidates == Take(semRanking, 3 * hq.top_k)

PositionIn(s, id) == CHOOSE i \in 1..Len(s) : s[i] = id

EveryIdOnce ==
    /\ Range(Ids(scored)) = Range(LexCandidates) \cup Range(SemCandidates)
    /\ NoDup(Ids(scored))

\* C5 (as claimed): the returned list has at most top_k results, each with a fused
\* score strictly greater than that of the next, and every id of either origin list
\* is a fusion candidate exactly once.
C5_StrictlyDescending ==
    hPhase = "returned" =>
        /\ Len(result[1]) <= hq.top_k
        /\ \A i \in 1..(Len(result[1]) - 1) :
               RLess(result[1][i + 1].score, result[1][i].score)
        /\ EveryIdOnce

\* C5 (amended): at most top_k results, no result scored lower than the one after it
\* (equal fused scores occur), every id of either origin list a candidate exactly once.
C5_Descending ==
    hPhase = "returned" =>
        /\ Len(result[1]) <= hq.top_k
        /\ \A i \in 1..(Len(result[1]) - 1) :
               ~RLess(result[1][i].score, result[1][i + 1].score)
        /\ EveryIdOnce

\* a full list holding two equal scores, one of them of an id only the semantic
\* search found, cut from a longer candidate list
C5_Witness ==
    /\ hPhase = "returned"
    /\ Len(result[1]) = hq.top_k /\ Len(scored) > hq.top_k
    /\ \E i \in 1..(Len(result[1]) - 1) :
           /\ REq(result[1][i].score, result[1][i + 1].score)
           /\ result[1][i].lexical_rank = None
           /\ result[1][i + 1].semantic_rank = None

\* (1 - alpha) / (k_rrf + r1) + alpha / (k_rrf + r2), a missing rank contributing zero
RrfFormula(id) ==
    LET a == hq.alpha[1]
        d == hq.alpha[2]
        inLex == id \in Range(LexCandidates)
        inSem == id \in Range(SemCandidates)
        r1 == PositionIn(LexCandidates, id)
        r2 == PositionIn(SemCandidates, id)
    IN  IF inLex /\ inSem
        THEN <<(d - a) * (60 + r2) + a * (60 + r1), d * (60 + r1) * (60 + r2)>>
        ELSE IF inLex THEN <<d - a, d * (60 + r1)>>
        ELSE IF inSem THEN <<a, d * (60 + r2)>>
        ELSE <<0, 1>>

\* C6: every fused candidate's score equals (1-alpha)/(k_rrf+r1) + alpha/(k_rrf+r2)
\* with k_rrf = 60, r1 and r2 its 1-based ranks among the top_k*3 candidates fetched
\* from the lexical and the vector origin, an origin without the id contributing zero.
C6_RrfScore ==
    hPhase = "returned" =>
        \A i \in 1..Len(scored) : REq(scored[i].score, RrfFormula(scored[i].id))

\* an id ranked differently by the two origins, another found by one origin only,
\* a weight strictly between 0 and 1, and a ranking longer than the fetch size
C6_Witness ==
    /\ hPhase = "returned"
    /\ hq.alpha[1] > 0 /\ hq.alpha[1] < hq.alpha[2]
    /\ Len(semRanking) > 3 * hq.top_k
    /\ \E i \in 1..Len(scored) :
           /\ scored[i].lexical_rank # None /\ scored[i].semantic_rank # None
           /\ scored[i].lexical_rank # scored[i].semantic_rank
    /\ \E i \in 1..Len(scored) : scored[i].lexical_rank = None

\* C7 (as claimed): with alpha = 0 the returned ids and their order are the first top_k
\* of the lexical search run with the same fetch size, and with alpha = 1 the first
\* top_k of the vector search.
C7_DegenerateWeights ==
    hPhase = "returned" =>
        /\ hq.alpha[1] = 0 => Ids(result[1]) = Take(LexCandidates, hq.top_k)
        /\ hq.alpha[1] = hq.alpha[2] => Ids(result[1]) = Take(SemCandidates, hq.top_k)

\* C8: a call whose lexical or vector search failed raises that search's error and
\* returns no list; a list is returned only when both searches succeeded, in the
\* parallel and in the sequential mode.
C8_NoPartialFusion ==
    /\ hPhase \in {"fuse", "returned"} => lexFut.state = "ok" /\ semFut.state = "ok"
    /\ result # None => hPhase = "returned"
    /\ hPhase = "raised" =>
           /\ result = None
           /\ error = "lexical" => lexFut.state = "failed"
           /\ error = "semantic" => semFut.state = "failed"
           /\ error # "none"
    /\ lexFut.state = "failed" => hPhase \in {"joinLexical", "raised"}
    /\ semFut.state = "failed" => hPhase \in {"joinLexical", "joinSemantic", "raised"}

\* a parallel call raised the vector search's error although the lexical search had
\* returned results
C8_Witness ==
    /\ hPhase = "raised" /\ error = "semantic" /\ hq.use_parallel
    /\ lexFut.state = "ok" /\ Len(lexFut.res) > 0
    /\ result = None

\* --------------------------------------------------------- pipeline claims
\* C9 (as claimed): an initialize that returned skipped the vector embedding and
\* indexing step only in the Warm-matched state; in the Cold, Warm-stale and
\* Warm-corrupt states it cleared the vector index and rebuilt it in full.
C9_SkipOnlyWhenWarmMatched ==
    pI = "returned" =>
        /\ hist.skipped => hist.state = "matched"
        /\ hist.state # "matched" => hist.cleared /\ hist.rebuilt

\* the data whose fingerprint the state file holds
IndexedAccordingToStateFile ==
    UNION {DocsOf(v) : v \in {w \in DataVersions : Fingerprint(w) = stateFile.hash}}

\* C10 (as claimed): whenever no initialize is under way (it returned or raised, or the
\* process stopped or crashed at any step), a readable state file refers to a
\* vector index that holds exactly the documents of the data it fingerprints.
C10_StateFileNeverAheadOfIndex ==
    (proc = "down" \/ pI \in {"idle", "returned"}) /\ Readable(stateFile)
        => vecDocs = IndexedAccordingToStateFile

\* ------------------------------------------------------- fingerprint claims
\* C11 (as claimed): with every read succeeding, the fingerprint computed twice over
\* unchanged files is the same, and after one byte of a source file the loader
\* reads was changed it is different.
C11_FingerprintTracksSourceFiles ==
    fpPhase = "rehashed" /\ ~fpNote.readFailed
        => IF fpNote.changed THEN fpAfter # fpBefore ELSE fpAfter = fpBefore

\* ---------------------------------------------------------- reranker claims
\* C12 (as claimed): rerank returns a list in every outcome; when the service failed
\* or its answer was malformed the list is the first top_k inputs in input order
\* with rerank_score = original score and original_rank = input position; the
\* list never has more than top_k elements and each is one of the inputs.
C12_FallbackOnAnyFailure ==
    rrRet.how # "none" =>
        /\ Len(rrRet.list) <= rrCall.top_k
        /\ \A n \in 1..Len(rrRet.list) :
               \E i \in 1..Len(rrCall.results) :
                   /\ rrRet.list[n].id = rrCall.results[i].id
                   /\ rrRet.list[n].original_score = rrCall.results[i].score
                   /\ rrRet.list[n].original_rank = i
        /\ rrRet.how \in {"no key", "client", "service", "index error"}
               => rrRet.list = Fallback(rrCall.results, rrCall.top_k)

\* ----------------------------------------------------------- lexical claims
\* C13: a search made while index_documents was never called, or only ever called
\* with an empty list, returns an empty list and does not raise, whatever the
\* query, top_k and source_filter.
C13_EmptyBeforeIndex ==
    lxRet.op = "search" /\ lxRet.calls \in {"never", "empty"}
        => ~lxRet.out.raised /\ lxRet.out.results = <<>>

C13_Witness ==
    /\ lxRet.op = "search" /\ lxRet.calls = "empty"
    /\ lxRet.query_tokens # {} /\ lxRet.source_filter # None /\ lxRet.top_k > 0
    /\ lxRet.out.results = <<>>

\* ---------------------------------------------------------- semantic claims
\* C14: index_documents with len(documents) # len(embeddings) raises the count
\* mismatch error and leaves the local document map and the collection as they
\* were before the call.
C14_MismatchChangesNothing ==
    smRet.op = "index" /\ Len(smRet.documents) # smRet.n_embeddings
        => /\ smRet.raised = "ValueError"
           /\ SemState = smRet.before

C14_Witness ==
    /\ smRet.op = "index" /\ Len(smRet.documents) # smRet.n_embeddings
    /\ smRet.raised = "ValueError"
    /\ smColl # {} /\ \E d \in Range(smRet.documents) : d \notin smColl

\* ---------------------------------------------------------- services claims
\* two query strings that differ only in letter case and in leading, trailing or
\* repeated whitespace: the same words, case aside
SameWords(q1, q2) == Split(Lower(q1)) = Split(Lower(q2))

Alike(r1, r2) ==
    /\ SameWords(r1.query, r2.query)
    /\ r1.search_mode = r2.search_mode
    /\ r1.top_k = r2.top_k
    /\ r1.source_filter = r2.source_filter

\* C15: requests alike up to case and whitespace of the query have the same cache
\* key, and a response stored for one is what QueryCache.get returns for the other
\* while the stored entry is within its TTL.
C15_NormalizedKey ==
    /\ \A r1, r2 \in QueryRequests : Alike(r1, r2) => KeyOf(r1) = KeyOf(r2)
    /\ \A k \in DOMAIN svStored : \A r \in QueryRequests :
           /\ svStored[k].kind = "query"
           /\ Alike(r, svStored[k].request)
           /\ now <= svStored[k].at + default_ttl
           => GetResult(cache, KeyOf(r), now) = Some(svStored[k].value)

C15_Witness ==
    /\ svRet.op = "query get" /\ svRet.value = Some("response")
    /\ \E k \in DOMAIN svStored :
           /\ svStored[k].kind = "query"
           /\ Alike(svRet.request, svStored[k].request)
           /\ svStored[k].request.query = <<"a", " ", " ", "A", " ">>
           /\ svRet.request.query = <<"a", " ", "A">>

\* the 0-based indices of the positions of a list that hold None, ascending
RECURSIVE NoneIndices(_, _)
NoneIndices(list, i) ==
    IF i > Len(list) THEN <<>>
    ELSE (IF list[i] = None THEN <<i - 1>> ELSE <<>>) \o NoneIndices(list, i + 1)

\* C16: get_batch(texts) returns a list as long as texts whose position i holds the
\* vector cached for texts[i], or None, and the ascending list of exactly the
\* indices whose position holds None.
C16_BatchPartition ==
    svRet.op = "get_batch" =>
        /\ Len(svRet.results) = Len(svRet.texts)
        /\ svRet.results = svRet.cached
        /\ svRet.uncached = NoneIndices(svRet.results, 1)

C16_Witness ==
    /\ svRet.op = "get_batch" /\ Len(svRet.texts) = 2
    /\ svRet.results[1] = None /\ svRet.results[2] # None
    /\ svRet.uncached = <<0>>

C18_IndexesAgreeOnIds ==
    proc = "up" /\ pI = "returned" /\ initialized => IdsOf(lexDocs) = IdsOf(vecDocs)

\* ----------------------------------------------------------- process claims
\* what the query cache answers now for a key, from the entries at the start of the
\* failed call and from the entries it left
AnswerBefore(k) == VisibleEntry(prBefore[k], now)
AnswerAfter(k) == VisibleEntry(EntryOf(cache, k), now)

C20_FusionDeterministic ==
    hPhase = "returned" =>
        \A iter \in IterationOrders(Range(lexFut.res) \cup Range(semFut.res)) :
            Ids(result[1]) = Ids(Take(Fuse(lexFut.res, semFut.res, hq.alpha, RrfK, iter),
                                      hq.top_k))

\* -------------------------------------------------------- shared pool claims
InPool(task) ==
    \/ \E i \in 1..Len(plQueue) : plQueue[i] = task
    \/ \E s \in Slots : plSlots[s] = task

Waiting(q) == plPhase[q] \in {"submitSemantic", "joinLexical", "joinSemantic", "fuse"}

\* C21: the fusion of a query starts only when both searches submitted for that
\* query are done and neither failed, it is given the two lists those searches
\* produced for that query, and a call that raised has fused nothing.
C21_JoinBeforeFusion ==
    \A q \in Queries :
        /\ plPhase[q] = "fuse" =>
               plFut[q].lexical.state = "ok" /\ plFut[q].semantic.state = "ok"
        /\ plPhase[q] = "returned" =>
               plFused[q] = Some(<<SearchOf(Task(q, "lexical")),
                                   SearchOf(Task(q, "semantic"))>>)
        /\ plPhase[q] # "returned" => plFused[q] = None

\* a query has returned its fusion while another query was waiting for its searches
C21_Witness ==
    \E q \in Queries, r \in Queries :
        /\ q # r
        /\ plPhase[q] = "returned"
        /\ plFused[q] # None
        /\ plPhase[r] \in {"joinLexical", "joinSemantic"}

\* C22: no search of a query waits in the queue, with no worker idle, while the
\* other search of the same query runs: which would make its start wait for a
\* running search to end, that of its own query included.
C22_NoSerialization ==
    \A q \in Queries :
        ~ /\ \A s \in Slots : plSlots[s] # None
          /\ \/ /\ \E i \in 1..Len(plQueue) : plQueue[i] = Task(q, "semantic")
                /\ \E s \in Slots : plSlots[s] = Task(q, "lexical")
             \/ /\ \E i \in 1..Len(plQueue) : plQueue[i] = Task(q, "lexical")
                /\ \E s \in Slots : plSlots[s] = Task(q, "semantic")

C24_ExpiredPurgedOnPressure ==
    (lastOp.op = "set" /\ lastOp.over) =>
        /\ ExpiredKeys(cache, now) = {}
        /\ Cardinality(DOMAIN cache.store) + Cardinality(lastOp.evicted) <= max_size =>
               lastOp.evicted = {}

\* -------------------------------------------------- shared semantic claims
\* C25: no search or document_count meets a deleted collection, whether it ran
\* beside a clear or after one that failed, and a clear that has ended emptied the
\* local document map exactly if it emptied (deleted) the collection.
C25_ClearAtomic ==
    /\ \A t \in Threads :
           scOp[t].op \in {"search", "count"} => scObs[t] # "deleted"
    /\ scLastClear.ended => (scLastClear.deleted <=> scLastClear.local)

\* C28: the collection handle is set by at most one run of _initialize, and a method
\* that is past _initialize has a collection handle.
C28_InitializedOnce ==
    /\ scSetups <= 1
    /\ \A t \in Threads : scPc[t] \in {"body", "recreate", "local"} => scColl # None

\* --------------------------------------------------- shared lexical claims
\* C26: a search that used an index took its scores and its documents from the same
\* index_documents call.
C26_OneGeneration ==
    (lcOut.op = "search" /\ lcOut.built) => lcOut.scores = lcOut.documents

Agree(r1, r2) ==
    /\ NormalizeQuery(r1.query) = NormalizeQuery(r2.query)
    /\ r1.search_mode = r2.search_mode
    /\ r1.top_k = r2.top_k
    /\ r1.source_filter = r2.source_filter
    /\ r1.rerank = r2.rerank

\* C29: a call answered from the query cache is given a response that process
\* stored for a request with the same normalized query, search mode, top_k, source
\* filter (as given) and rerank flag.
C29_KeySound ==
    (prOut = "hit" /\ prRun.from # None) => Agree(prRun.from[1].by, prReq)

\* ------------------------------------------------------- embed_texts claims
\* the texts of the positions that were not cached, in order
RECURSIVE MissedTexts(_, _, _)
MissedTexts(texts, cached, i) ==
    IF i > Len(texts) THEN <<>>
    ELSE (IF cached[i] = None THEN <<texts[i]>> ELSE <<>>) \o MissedTexts(texts, cached, i + 1)

\* C30: embed_texts returns one vector per text in the order of the texts, the
\* cached vector of a text that was cached and else the vector the model computes
\* for that text; the model is given exactly the texts that were not cached, and
\* after the call the cache holds the new vector of each of them.
C30_OneVectorPerText ==
    svRet.op = "embed_texts" =>
        /\ Len(svRet.result) = Len(svRet.texts)
        /\ \A i \in 1..Len(svRet.texts) :
               svRet.result[i] = IF svRet.cached[i] # None THEN svRet.cached[i][1]
                                 ELSE Encode(svRet.texts[i])
        /\ svRet.sent = MissedTexts(svRet.texts, svRet.cached, 1)
        /\ \A i \in 1..Len(svRet.texts) :
               svRet.cached[i] = None =>
                   GetResult(cache, EmbKey(svRet.texts[i]), now) = Some(Encode(svRet.texts[i]))

\* a batch whose first text was cached with another vector and whose second was not
C30_Witness ==
    /\ svRet.op = "embed_texts" /\ Len(svRet.texts) = 2
    /\ svRet.cached[1] = Some("vector") /\ svRet.cached[2] = None
    /\ svRet.result = <<"vector", Encode(svRet.texts[2])>>
    /\ svRet.sent = <<svRet.texts[2]>>

====
